---- MODULE Spec2Model ----
(***************************************************************************)
(* Stacked-change upload of `git cl upload` (depot_tools/git_cl.py):       *)
(* _UploadAllPrecheck walks the local branches upstream of the current     *)
(* branch, UploadAllSquashed creates one squashed commit per branch of the *)
(* stack, pushes, and PostUploadUpdates writes the per-branch records.     *)
(***************************************************************************)
EXTENDS Integers, Sequences, FiniteSets, TLC

\* ------------------------------------------------------------------------
\* Optional values (Python None / a value), as sequences of length <= 1.
None == <<>>
Some(v) == <<v>>
IsSome(o) == o # <<>>
Val(o) == o[1]

\* ------------------------------------------------------------------------
\* The local git repository at the start of the invocation.
Branches == {"b1", "b2", "b3"}

\* Commits of the local history: 1 is the tip of refs/remotes/origin/main,
\* 2 -> 1, 3 -> 2, 4 -> 2 (a fork), 5 -> 3.
Commits == {1, 2, 3, 4, 5}
Parent == [c \in Commits |-> CASE c = 1 -> 0 [] c = 2 -> 1 [] c = 3 -> 2
                               [] c = 4 -> 2 [] c = 5 -> 3]

\* The local commits whose message carries a Change-Id footer.
WithChangeId == {4, 5}

\* Commits a recorded last-upload-hash may name.
UploadedAt == {2, 3}

\* Bounds of the review server's answers.
MaxRemotePatchset == 2
MaxChangeNumber == 2
MaxPushLines == 3

_MAX_STACKED_BRANCHES_UPLOAD == 20

\* The empty BranchRecord (no key set).
NoRecord == [gerritissue |-> None, gerritpatchset |-> None,
             gerritserver |-> None, gerritsquashhash |-> None,
             lastuploadhash |-> None]

\* Commit objects that are not part of the local history: squashed commits
\* of earlier uploads (one per branch) and the commits of this invocation.
BranchIndex(b) == CASE b = "b1" -> 1 [] b = "b2" -> 2 [] b = "b3" -> 3
OldSquash(b) == 10 + BranchIndex(b)
OldIssue(b) == 100 + BranchIndex(b)
ObjectBase == 20
NewObject(objs) == ObjectBase + Len(objs) + 1

\* The record an earlier upload of branch b at local commit c left behind.
UploadedRecord(b, c) ==
    [gerritissue |-> Some(OldIssue(b)), gerritpatchset |-> Some(1),
     gerritserver |-> Some("host"), gerritsquashhash |-> Some(OldSquash(b)),
     lastuploadhash |-> Some(c)]

VARIABLES
    tip,            \* branch -> commit the branch ref points to
    upstream,       \* branch -> [origin, ref]: branch.<b>.remote / .merge
    config,         \* branch -> BranchRecord (per-branch git config)
    objects,        \* commit objects created by this invocation
    pc,             \* position of the invocation
    error,          \* which fatal error ended the invocation
    branch_ref,     \* _UploadAllPrecheck: branch examined next (None: HEAD)
    cls,            \* _UploadAllPrecheck: branches collected, child first
    must_upload_upstream,
    first_pass,
    last,           \* the pass just made: [branch, added, first, case]
    seen,           \* the branches examined so far
    cherry_pick,    \* result flag of _UploadAllPrecheck
    handles,        \* lazily cached fields of the Changelist of cls[i]
    idx,            \* UploadAllSquashed: position in its current loop
    parent,         \* UploadAllSquashed: parent of the next commit
    orig_parent,
    uploads_by_cl,  \* UploadAllSquashed: <<[cl, _NewUpload fields]>>
    pushes,         \* git push commands run: each a sequence of refspecs
    change_numbers, \* numbers parsed from the push output
    posted,         \* PostUploadUpdates calls made: [cl, change_number]
    config0,        \* the records when the invocation started
    call,           \* the arguments of the _ComputeParent call made, if any
    head,           \* HEAD: the branch checked out ("detached": none)
    reconciled,     \* what _UpdateWithExternalChanges found and did
    options,        \* the command line: [force, cherry_pick_stacked]
    prompt,         \* the question _UploadAllPrecheck put to the user
    detail_cache,   \* Changelist._detail_cache: issue -> <<[options, data]>>
    detail_log,     \* the _GetChangeDetail calls made on the handle
    attempts,       \* CMDUploadChange: the _CMDUploadChange calls made
    description,    \* the branch whose ChangeDescription is in progress
    backup,         \* the branch whose description the backup file holds
    description_lines, \* ChangeDescription._description_lines
    ensured         \* the change ids ensure_change_id was called with

walkVars == <<branch_ref, cls, must_upload_upstream, first_pass, last, seen,
              cherry_pick>>
repoVars == <<tip, upstream, config, objects>>
uploadVars == <<handles, idx, parent, orig_parent, uploads_by_cl,
                pushes, change_numbers, posted>>
vars == <<tip, upstream, config, objects, pc, error, branch_ref, cls,
          must_upload_upstream, first_pass, last, seen, cherry_pick,
          handles, idx, parent, orig_parent, uploads_by_cl, pushes,
          change_numbers, posted, config0, call, head, reconciled, options,
          prompt, detail_cache, detail_log, attempts, description, backup,
          description_lines, ensured>>

\* The state of the operations that are modelled on their own.
textVars == <<description_lines, ensured>>
sideVars == <<detail_cache, detail_log, attempts, description, backup,
              textVars>>

\* The state of an upload invocation.
mainVars == <<tip, upstream, config, objects, pc, error, branch_ref, cls,
              must_upload_upstream, first_pass, last, seen, cherry_pick,
              handles, idx, parent, orig_parent, uploads_by_cl, pushes,
              change_numbers, posted, config0, call, head, reconciled,
              options, prompt>>

CurrentBranch == "b1"

\* The issues a handle may be bound to when it asks for change details.
DetailIssues == {101, 102}

\* Changelist.__init__: nothing cached, nothing asked yet.
SideInit ==
    /\ detail_cache = [i \in DetailIssues |-> <<>>]
    /\ detail_log = <<>>
    /\ attempts = <<>>
    /\ description = None
    /\ backup = None

\* No ChangeDescription is looked at on its own.
NoText ==
    /\ description_lines = <<>>
    /\ ensured = <<>>

\* The options of a plain `git cl upload`: every question is asked.
Interactive == [force |-> FALSE, cherry_pick_stacked |-> FALSE]

\* _UpdateWithExternalChanges has not been called.
NotReconciled == [kind |-> "not_called", local_ps |-> 0, external_ps |-> 0,
                  kinds |-> <<>>, why |-> "", answer |-> "", base |-> 0]

\* The parent of a commit: of the local history, or of an object created by
\* this invocation; a squashed commit of an earlier upload has none here.
ParentOf(c) ==
    IF c \in Commits THEN Parent[c]
    ELSE IF c > ObjectBase THEN objects[c - ObjectBase].parent
    ELSE 0

RECURSIVE Ancestors(_)
Ancestors(c) == IF c = 0 THEN {} ELSE {c} \cup Ancestors(ParentOf(c))

\* scm.GIT.IsAncestor(maybe_ancestor, ref): git merge-base --is-ancestor.
IsAncestor(a, c) == a \in Ancestors(c)

\* git_common.get_or_create_merge_base: the deepest common ancestor.
MergeBase(x, y) ==
    LET common == Ancestors(x) \cap Ancestors(y)
    IN  CHOOSE m \in common : Ancestors(m) = common

\* The tree of the squashed commit an earlier upload of a branch created:
\* the tree of the commit the branch was uploaded at (its last-upload-hash
\* at the start); 0, a tree no local commit has, when that is not recorded.
OldSquashTree(c) ==
    LET b == CHOOSE x \in Branches : OldSquash(x) = c
    IN  IF IsSome(config0[b].lastuploadhash)
        THEN Val(config0[b].lastuploadhash) ELSE 0

\* git rev-parse <commit>: -- the tree of a commit.
TreeOf(c) ==
    IF c \in Commits THEN c
    ELSE IF c > ObjectBase THEN objects[c - ObjectBase].tree
    ELSE IF c \in { OldSquash(x) : x \in Branches } THEN OldSquashTree(c)
    ELSE 0


\* ------------------------------------------------------------------------
\* Reads of the repository.

\* Changelist.FetchUpstreamTuple(branch)
FetchUpstreamTuple(b) == upstream[b]

\* The commit the upstream ref of b resolves to.
UpstreamTip(b) ==
    IF upstream[b].origin = "." THEN tip[upstream[b].ref] ELSE 1

\* Changelist.GetCommonAncestorWithUpstream
GetCommonAncestorWithUpstream(b) == MergeBase(tip[b], UpstreamTip(b))

\* _GetCommitCountSummary(base, end): None (FALSE) iff base..end is empty.
\* end is always a descendant of base here.
_GetCommitCountSummary(base, end) == Cardinality(Ancestors(end) \ Ancestors(base)) > 0

\* scm.GIT.GetBranchConfig(root, branch, key); a remote branch has no record.
GetBranchConfig(origin, ref, key) ==
    IF origin = "." THEN config[ref][key] ELSE None

\* ------------------------------------------------------------------------
\* Changelist: the lazily resolved fields of one handle.  status and ps are
\* the change detail fetched from the review server, cached once fetched.
FreshHandle == [issue |-> None, lookedup_issue |-> FALSE,
                patchset |-> None, lookedup_patchset |-> FALSE,
                status |-> None, ps |-> None]

Statuses == {"NEW", "MERGED", "ABANDONED"}

\* Changelist.GetIssue: the handle after the call; its .issue is the result.
GetIssue(h, b) ==
    IF ~IsSome(h.issue) /\ ~h.lookedup_issue
    THEN [h EXCEPT !.issue = config[b].gerritissue, !.lookedup_issue = TRUE]
    ELSE h

\* Changelist.GetPatchset: the handle after the call.
GetPatchset(h, b) ==
    IF ~IsSome(h.patchset) /\ ~h.lookedup_patchset
    THEN [h EXCEPT !.patchset = config[b].gerritpatchset,
                   !.lookedup_patchset = TRUE]
    ELSE h

\* The branches reached from b by following local upstream tracking.
RECURSIVE TrackedFrom(_, _, _)
TrackedFrom(up, b, acc) ==
    IF b \in acc \/ b \notin Branches THEN acc
    ELSE IF up[b].origin = "." THEN TrackedFrom(up, up[b].ref, acc \cup {b})
    ELSE acc \cup {b}
Tracked(up, b) == TrackedFrom(up, b, {})

\* ------------------------------------------------------------------------
\* `git cl upload` has been started and has done nothing yet.
Started ==
    /\ config0 = config
    /\ objects = <<>>
    /\ pc = "walk"
    /\ error = "none"
    /\ branch_ref = None
    /\ cls = <<>>
    /\ must_upload_upstream = FALSE
    /\ first_pass = TRUE
    /\ last = [branch |-> "", added |-> FALSE, first |-> FALSE, case |-> "none"]
    /\ seen = {}
    /\ cherry_pick = FALSE
    /\ handles = <<>>
    /\ idx = 0
    /\ parent = None
    /\ orig_parent = None
    /\ uploads_by_cl = <<>>
    /\ pushes = <<>>
    /\ change_numbers = <<>>
    /\ posted = <<>>
    /\ call = None
    /\ head = CurrentBranch
    /\ reconciled = NotReconciled
    /\ options = Interactive
    /\ prompt = "none"
    /\ SideInit
    /\ NoText

Init ==
    /\ tip \in [Branches -> Commits]
    /\ upstream \in [Branches -> [origin : {".", "origin"}, ref : Branches \cup {"main"}]]
    /\ \A b \in Branches :
          /\ upstream[b].origin = "origin" <=> upstream[b].ref = "main"
          /\ upstream[b].ref # b
    /\ upstream[CurrentBranch].ref # "b3"
    /\ upstream["b3"].origin = "origin"
    /\ \A b \in Branches \ Tracked(upstream, CurrentBranch) :
          /\ tip[b] = 1
          /\ upstream[b].origin = "origin"
    /\ \E up \in [Branches -> {0} \cup UploadedAt] :
          /\ \A b \in Branches \ Tracked(upstream, CurrentBranch) : up[b] = 0
          /\ config = [b \in Branches |->
                      IF up[b] = 0 THEN NoRecord ELSE UploadedRecord(b, up[b])]
    /\ Started

\* ------------------------------------------------------------------------
\* _UploadAllPrecheck: one pass of the `while True` loop.

\* (mutant) Case 5 taken for a rebased tree: the walk goes on.
WalkCaseAheadContinues(b, base_commit) ==
    LET origin == FetchUpstreamTuple(b).origin
        upstream_branch == FetchUpstreamTuple(b).ref
        upstream_last_upload ==
            GetBranchConfig(origin, upstream_branch, "lastuploadhash")
    IN  IF origin # "." THEN "root"
        ELSE IF ~IsSome(upstream_last_upload) THEN "unseen"
        ELSE IF base_commit = Val(upstream_last_upload) THEN "covered"
        ELSE IF IsAncestor(Val(upstream_last_upload), base_commit) THEN "behind"
        ELSE "rebased"

\* Which of the loop's cases decides what follows the examination of b.
WalkCase(b, base_commit) ==
    LET origin == FetchUpstreamTuple(b).origin
        upstream_branch == FetchUpstreamTuple(b).ref
        upstream_last_upload ==
            GetBranchConfig(origin, upstream_branch, "lastuploadhash")
    IN  IF origin # "." THEN "root"
        ELSE IF ~IsSome(upstream_last_upload) THEN "unseen"
        ELSE IF base_commit = Val(upstream_last_upload) THEN "covered"
        ELSE IF IsAncestor(Val(upstream_last_upload), base_commit) THEN "behind"
        ELSE IF IsAncestor(base_commit, Val(upstream_last_upload)) THEN "ahead"
        ELSE "rebased"

\* (mutant) only the root of the tree ends the walk.
StopsWalkAtRootOnly(case) == case = "root"

\* (mutant) a never-uploaded upstream ends the walk too.
StopsWalkAtUnseen(case) == case \in {"root", "covered", "unseen"}

\* The cases that `break` out of the loop (Case 1 and Case 3).
StopsWalk(case) == case \in {"root", "covered"}

\* (mutant) no branch of the stack has to be uploaded first.
NeedsUpstreamUploadNever(added, first, squash_hash) == FALSE

\* Lines 5719-5725: a branch added mid-stack that has no squash hash.
NeedsUpstreamUpload(added, first, squash_hash) ==
    added /\ ~first /\ ~IsSome(squash_hash)

PrecheckPass ==
    /\ pc = "walk"
    /\ IF Len(cls) > _MAX_STACKED_BRANCHES_UPLOAD
       THEN /\ pc' = "died"
            /\ error' = "too_many_branches"
            /\ UNCHANGED walkVars
       ELSE LET b == IF IsSome(branch_ref) THEN Val(branch_ref) ELSE CurrentBranch
                base_commit == GetCommonAncestorWithUpstream(b)
                end_commit == tip[b]
                commit_summary == _GetCommitCountSummary(base_commit, end_commit)
                case == WalkCase(b, base_commit)
            IN  IF ~commit_summary /\ first_pass
                THEN /\ pc' = "died"
                     /\ error' = "nothing_to_commit"
                     /\ last' = [branch |-> b, added |-> FALSE, first |-> first_pass,
                                 case |-> "none"]
                     /\ seen' = seen \cup {b}
                     /\ UNCHANGED <<branch_ref, cls, must_upload_upstream,
                                    first_pass, cherry_pick>>
                ELSE /\ cls' = IF commit_summary THEN Append(cls, b) ELSE cls
                     /\ must_upload_upstream' =
                          IF NeedsUpstreamUpload(commit_summary, first_pass,
                                                 config[b].gerritsquashhash)
                          THEN TRUE ELSE must_upload_upstream
                     /\ first_pass' = FALSE
                     /\ branch_ref' = Some(FetchUpstreamTuple(b).ref)
                     /\ last' = [branch |-> b, added |-> commit_summary,
                                 first |-> first_pass, case |-> case]
                     /\ seen' = seen \cup {b}
                     /\ pc' = CASE StopsWalk(case) -> "choose"
                                [] case = "ahead" -> "died"
                                [] OTHER -> "walk"
                     /\ error' = IF case = "ahead" THEN "diverged" ELSE error
                     /\ UNCHANGED cherry_pick
    /\ UNCHANGED <<repoVars, uploadVars, config0, sideVars, call, head, reconciled, options, prompt>>

\* (mutant) the flag does not select cherry-pick mode without a question.
ChoicePromptIgnoresFlag(opts, many, must_upload) ==
    IF ~many THEN "none"
    ELSE IF must_upload
    THEN IF opts.cherry_pick_stacked THEN "none"
         ELSE IF ~opts.force THEN "confirm_upstream" ELSE "none"
    ELSE IF ~opts.force THEN "stack_or_cherry_pick" ELSE "none"

\* Lines 5781-5807: the question put to the user: none, the confirmation
\* that the upstream branches are uploaded too (confirm_or_exit), or the
\* choice between the whole stack and a cherry-pick (AskForData).
ChoicePrompt(opts, many, must_upload) ==
    IF ~many THEN "none"
    ELSE IF must_upload
    THEN IF opts.cherry_pick_stacked THEN "none"
         ELSE IF ~opts.force THEN "confirm_upstream" ELSE "none"
    ELSE IF opts.cherry_pick_stacked THEN "none"
         ELSE IF ~opts.force THEN "stack_or_cherry_pick" ELSE "none"

\* _UploadAllPrecheck after the loop: authentication, then the choice
\* between uploading the whole stack and cherry-picking the current branch.
PrecheckChoose ==
    /\ pc = "choose"
    /\ \E authenticated \in BOOLEAN, answer \in {"", "n", "ctrl-c"} :
          LET asked == ChoicePrompt(options, Len(cls) > 1, must_upload_upstream)
          IN
          IF ~authenticated
             THEN /\ answer = ""
                  /\ pc' = "died" /\ error' = "not_authenticated"
                  /\ prompt' = "none"
                  /\ UNCHANGED cherry_pick
             ELSE /\ prompt' = asked
                  /\ IF Len(cls) > 1
                     THEN IF must_upload_upstream
                          THEN IF options.cherry_pick_stacked
                               THEN /\ answer = ""
                                    /\ pc' = "died"
                                    /\ error' = "must_upload_upstream"
                                    /\ UNCHANGED cherry_pick
                               ELSE IF asked = "confirm_upstream"
                               THEN \* confirm_or_exit
                                    /\ answer \in {"", "ctrl-c"}
                                    /\ pc' = IF answer = "" THEN "create" ELSE "died"
                                    /\ error' = IF answer = "" THEN error ELSE "aborted"
                                    /\ UNCHANGED cherry_pick
                               ELSE /\ answer = ""
                                    /\ pc' = "create"
                                    /\ UNCHANGED <<cherry_pick, error>>
                          ELSE IF options.cherry_pick_stacked
                               THEN /\ answer = ""
                                    /\ cherry_pick' = TRUE
                                    /\ pc' = "create"
                                    /\ UNCHANGED error
                               ELSE IF asked = "stack_or_cherry_pick"
                               THEN \* AskForData: enter, or `n`
                                    /\ answer \in {"", "n"}
                                    /\ cherry_pick' = (answer = "n")
                                    /\ pc' = "create"
                                    /\ UNCHANGED error
                               ELSE /\ answer = ""
                                    /\ pc' = "create"
                                    /\ UNCHANGED <<cherry_pick, error>>
                     ELSE /\ answer = ""
                          /\ pc' = "create"
                          /\ UNCHANGED <<cherry_pick, error>>
    /\ handles' = [i \in 1..Len(cls) |-> FreshHandle]
    /\ UNCHANGED <<repoVars, branch_ref, cls, must_upload_upstream, first_pass,
                   last, seen, idx, parent, orig_parent, uploads_by_cl, pushes,
                   change_numbers, posted, config0, sideVars, call, head, reconciled,
                   options>>

\* ------------------------------------------------------------------------
\* UploadAllSquashed.

\* (mutant) the stack processed in the order of its discovery.
OrderedAsDiscovered(k) == k

\* ordered_cls = list(reversed(cls)): position k of ordered_cls is position
\* Len(cls) + 1 - k of cls (and of handles).
Ordered(k) == Len(cls) + 1 - k

\* (mutant) only the issue key is unset.
ResetIssueOnly(rec) == [rec EXCEPT !.gerritissue = None]

\* Changelist.SetIssue() without an issue: the branch's record afterwards
\* (every key of reset_suffixes is unset).
ResetRecord(rec) == NoRecord

\* (mutant) the external patchset is recorded after a clean apply too.
RecordsExternalPatchsetAlways(kind) == kind \in {"conflict", "applied"}

\* _UpdateWithExternalChanges calls SetPatchset(external_ps) only when the
\* patch did not apply cleanly.
RecordsExternalPatchset(kind) == kind = "conflict"

\* (mutant) every commit of the stack is created on the root's parent.
ChainParentKeepsRoot(cur_parent, commit_to_push) == cur_parent

\* Line 5635: parent = new_upload.commit_to_push
ChainParent(cur_parent, commit_to_push) == Some(commit_to_push)

\* (mutant) the refspec is built from the first upload.
PushRefspecsOfFirst(uploads) ==
    <<[commit |-> uploads[1].commit_to_push,
       target |-> "refs/for/main",
       options_of |-> uploads[1].cl]>>

\* Lines 5638-5658: the refspecs of the push: one, built from the commit and
\* the handle of uploads_by_cl[-1].
PushRefspecs(uploads) ==
    <<[commit |-> uploads[Len(uploads)].commit_to_push,
       target |-> "refs/for/main",
       options_of |-> uploads[Len(uploads)].cl]>>

\* (mutant) every branch gets the first parsed number.
FirstChangeNumber(numbers, i) == numbers[1]

\* Line 5678: change_numbers[i]
ChangeNumberFor(numbers, i) == numbers[i]

\* (mutant) the patchset is not incremented.
SamePatchset(prev_patchset) == prev_patchset

\* Line 2170: SetPatchset(new_upload.prev_patchset + 1)
NextPatchset(prev_patchset) == prev_patchset + 1

\* (mutant) the patchset the handle has cached survives.
SetIssueNoneKeepsPatchset(h) ==
    [h EXCEPT !.issue = None, !.lookedup_issue = TRUE]

\* Changelist.SetIssue() without an issue: the handle afterwards.
SetIssueNone(h) ==
    [h EXCEPT !.issue = None, !.lookedup_issue = TRUE, !.patchset = None]

\* Changelist.SetIssue() without an issue, lines 1693-1701: the message of
\* the commit at HEAD has a Change-Id footer, which `git commit --amend`
\* then removes.  t: the branch tips, h: the branch checked out.
SetIssueAmends(t, h) == t[h] \in WithChangeId

\* The commit `git commit --amend` puts in the place of commit c.
Amended(c) == [parent |-> ParentOf(c), tree |-> TreeOf(c)]

\* (mutant) after a conflict the parent stays checked out.
CherryPickHeadKeepsParent(applies, branch, onto) ==
    IF applies THEN branch ELSE "detached"

\* Lines 2079-2087: HEAD after `checkout -q parent`, the cherry-pick and,
\* on either outcome, `checkout -q self.branch`.
CherryPickHead(applies, branch, onto) == branch

\* Changelist._PrepareChange, lines 2100-2104: the ChangeDescription of the
\* branch exists once EnsureCanUploadPatchset has returned; line 2144 writes
\* it to the backup file when the hooks have passed too.
DescriptionMade(err) == err \in {"none", "presubmit"}

\* Changelist._PrepareChange up to the presubmit hooks: the possible
\* outcomes [err, h, cleared] for handle h of branch b.  cleared: the
\* change was MERGED and SetIssue() unset the branch's record.
HookResults(h, cleared) ==
    { [err |-> e, h |-> h, cleared |-> cleared] : e \in {"none", "presubmit"} }

\* Changelist.EnsureCanUploadPatchset, given the status the server reports.
EnsureCanUploadPatchset(h, st) ==
    CASE st = "ABANDONED" ->
            { [err |-> "abandoned", h |-> h, cleared |-> FALSE] }
      [] st = "MERGED" ->
            { [err |-> "merged", h |-> h, cleared |-> FALSE] }
            \cup HookResults(SetIssueNone(h), TRUE)
      [] OTHER -> HookResults(h, FALSE)

_PrepareChange(h0, b) ==
    LET h == GetIssue(h0, b)
    IN  IF ~IsSome(h.issue) THEN HookResults(h, FALSE)
        ELSE UNION { EnsureCanUploadPatchset([h EXCEPT !.status = Some(st)], st) :
                       st \in IF IsSome(h.status) THEN {Val(h.status)}
                              ELSE Statuses }

\* Changelist.GetMostRecentPatchset(update=False): the patchset numbers the
\* server may report to handle h (0 stands for None: no issue).
GetMostRecentPatchset(h) ==
    IF ~IsSome(h.issue) THEN {0}
    ELSE IF IsSome(h.ps) THEN {Val(h.ps)}
    ELSE 1..MaxRemotePatchset

\* The kinds the review server gives a patchset.
PatchsetKinds == {"REWORK", "TRIVIAL_REBASE", "NO_CODE_CHANGE"}

\* The commits the review server may name as the first parent of a revision.
ExternalBases == {1, 2}

\* (mutant) only NO_CHANGE counts as insignificant.
SignificantUnlessNoChange(kinds, lower, upper) ==
    \E ps \in lower..upper : kinds[ps] # "NO_CHANGE"

\* Changelist._IsPatchsetRangeSignificant(lower, upper), given the kinds of
\* the patchsets: some patchset of lower..upper is a rework or a rebase.
_IsPatchsetRangeSignificant(kinds, lower, upper) ==
    \E ps \in lower..upper : kinds[ps] \notin {"NO_CHANGE", "NO_CODE_CHANGE"}

\* (mutant) a mismatch of parents is fatal whatever the user answers.
AfterConfirmAlwaysExits(answer) == "aborted"

\* confirm_or_exit(... 'Continue with upload and override the latest
\* changes?'): Enter lets the caller go on (it returns None), Ctrl+C exits.
AfterConfirm(answer) == IF answer = "ctrl-c" THEN "aborted" ELSE "override"

\* An outcome of the reconciler.  kind: "none" (returned None before any
\* prompt), "declined" (the user declined to apply), "override" (returned
\* None after a mismatch the user confirmed), "aborted" (the user aborted at
\* a mismatch), "base" (empty diff: the external base is returned),
\* "applied" (clean apply and commit), "conflict" (unclean apply: fatal).
\* why names the mismatch the user was asked about, answer what they typed.
Outcome(kind, h, local_ps, external_ps, kinds, why, base) ==
    [kind |-> kind, h |-> h, local_ps |-> local_ps, external_ps |-> external_ps,
     kinds |-> kinds, why |-> why, base |-> base, answer |-> ""]

\* Lines 3409-3504 for handle h of branch b: the outcomes once the range
\* local_ps + 1 .. external_ps was found significant.
ApplyExternalChanges(h, b, local_ps, external_ps, kinds) ==
    LET local_base == GetCommonAncestorWithUpstream(b)
        Out(kind, why, base) ==
            Outcome(kind, h, local_ps, external_ps, kinds, why, base)
        Asked(why, answer) ==
            [Out(AfterConfirm(answer), why, 0) EXCEPT !.answer = answer]
    IN  { Out("declined", "", 0) }
        \cup UNION {
          IF local_base # external_base /\ tracked
          THEN { Asked("local_base", answer) : answer \in {"", "ctrl-c"} }
          ELSE { Asked("patchset_bases", answer) : answer \in {"", "ctrl-c"} }
               \cup { Asked("parents", answer) : answer \in {"", "ctrl-c"} }
               \cup { Out(k, "", external_base) :
                        k \in {"base", "applied", "conflict"} }
          : external_base \in ExternalBases,
            tracked \in IF upstream[b].origin = "." THEN {TRUE} ELSE BOOLEAN }

\* Changelist._UpdateWithExternalChanges for handle h0 of branch b: the
\* possible outcomes.
_UpdateWithExternalChanges(h0, b) ==
    LET h1 == GetPatchset(h0, b)
        h == GetIssue(h1, b)
    IN  IF ~IsSome(h.patchset)
        THEN { Outcome("none", h1, 0, 0, <<>>, "", 0) }
        ELSE LET local_ps == Val(h.patchset) IN
             UNION {
               LET hp == IF external_ps = 0 THEN h
                         ELSE [h EXCEPT !.ps = Some(external_ps)]
               IN IF external_ps = 0 \/ external_ps = local_ps
                  THEN { Outcome("none", hp, local_ps, external_ps, <<>>, "", 0) }
                  ELSE UNION {
                         IF ~_IsPatchsetRangeSignificant(kinds, local_ps + 1,
                                                         external_ps)
                         THEN { Outcome("none", hp, local_ps, external_ps,
                                        kinds, "", 0) }
                         ELSE ApplyExternalChanges(hp, b, local_ps,
                                                   external_ps, kinds)
                         : kinds \in [(local_ps + 1)..external_ps -> PatchsetKinds] }
               : external_ps \in GetMostRecentPatchset(h) }

\* The search of lines 5590-5616 for cl's closest ancestor with a squash
\* hash, starting at `branch`: <<parent, orig_parent>>.
RECURSIVE ClosestUploadedAncestor(_, _, _)
ClosestUploadedAncestor(cl, branch, orig) ==
    LET origin == FetchUpstreamTuple(branch).origin
        upstream_branch == FetchUpstreamTuple(branch).ref
    IN  IF origin # "."
        THEN <<Some(GetCommonAncestorWithUpstream(cl)), orig>>
        ELSE IF upstream_branch \in {"master", "main"}
        THEN <<Some(GetCommonAncestorWithUpstream(cl)), orig>>
        ELSE LET new_orig == GetBranchConfig(".", upstream_branch, "lastuploadhash")
                 p == GetBranchConfig(".", upstream_branch, "gerritsquashhash")
             IN  IF IsSome(p) THEN <<p, new_orig>>
                 ELSE ClosestUploadedAncestor(cl, upstream_branch, new_orig)

\* (mutant) a base is returned for an empty diff only.
ReturnsExternalBaseForEmptyDiff(kind) == kind = "base"

\* Lines 3476 and 3504: `return external_base`, for an empty diff and after
\* the commit of a clean apply.
ReturnsExternalBase(kind) == kind \in {"base", "applied"}

\* (mutant) the reconciler is consulted whatever the length of the stack.
ConsultsReconcilerAlways(n) == TRUE

\* Lines 5586-5587: `if len(ordered_cls) == 1`, the only case in which
\* external changes are looked for.
ConsultsReconciler(n) == n = 1

\* Lines 5580-5621: the parent of the root commit of the stack.
UploadRootParent ==
    /\ pc = "create"
    /\ ~cherry_pick
    /\ LET n == Len(cls)
           b == cls[n]
       IN \E r \in IF ConsultsReconciler(n)
                   THEN _UpdateWithExternalChanges(handles[n], b)
                   ELSE { Outcome("skipped", handles[n], 0, 0, <<>>, "", 0) } :
            /\ handles' = [handles EXCEPT ![n] =
                             IF RecordsExternalPatchset(r.kind)
                             THEN [r.h EXCEPT !.patchset = Some(r.external_ps)]
                             ELSE r.h]
            /\ config' = IF RecordsExternalPatchset(r.kind)
                         THEN [config EXCEPT ![b].gerritpatchset = Some(r.external_ps)]
                         ELSE config
            /\ objects' = IF r.kind = "applied"
                          THEN Append(objects, [parent |-> tip[b],
                                                tree |-> 100 + TreeOf(tip[b])])
                          ELSE objects
            /\ tip' = IF r.kind = "applied"
                      THEN [tip EXCEPT ![b] = NewObject(objects)]
                      ELSE tip
            /\ reconciled' = [kind |-> r.kind, local_ps |-> r.local_ps,
                               external_ps |-> r.external_ps,
                               kinds |-> r.kinds, why |-> r.why,
                               answer |-> r.answer, base |-> r.base]
            /\ IF ReturnsExternalBase(r.kind)
               THEN /\ parent' = Some(r.base)
                    /\ orig_parent' = parent'
               ELSE IF r.kind \notin {"aborted", "conflict"}
               THEN LET found == ClosestUploadedAncestor(b, b, None)
                    IN  /\ parent' = found[1]
                        /\ orig_parent' = IF IsSome(found[2]) THEN found[2]
                                          ELSE found[1]
               ELSE UNCHANGED <<parent, orig_parent>>
            /\ pc' = IF r.kind \in {"aborted", "conflict"} THEN "died" ELSE "commit"
            /\ error' = CASE r.kind = "aborted" -> "aborted"
                          [] r.kind = "conflict" -> "patch_conflict"
                          [] OTHER -> error
    /\ idx' = 1
    /\ UNCHANGED <<upstream, walkVars, uploads_by_cl, pushes,
                   change_numbers, posted, config0, sideVars, call, head, options,
                   prompt>>

\* One pass of the loop of lines 5625-5636: Changelist.PrepareSquashedCommit
\* for ordered_cls[idx].
PrepareSquashedCommit ==
    /\ pc = "commit"
    /\ idx <= Len(cls)
    /\ LET i == Ordered(idx)
           b == cls[i]
           child_base_commit ==
               IF idx + 1 <= Len(cls)
               THEN Some(GetCommonAncestorWithUpstream(cls[Ordered(idx + 1)]))
               ELSE None
           end_commit == IF IsSome(child_base_commit) THEN Val(child_base_commit)
                         ELSE tip[b]
       IN \E r \in _PrepareChange(handles[i], b) :
            LET amends == r.cleared /\ SetIssueAmends(tip, head)
                objs == IF amends THEN Append(objects, Amended(tip[head]))
                        ELSE objects
            IN
            /\ config' = IF r.cleared THEN [config EXCEPT ![b] = ResetRecord(config[b])]
                         ELSE config
            /\ tip' = IF amends THEN [tip EXCEPT ![head] = NewObject(objects)]
                      ELSE tip
            /\ description' = IF DescriptionMade(r.err) THEN Some(b)
                               ELSE description
            /\ backup' = IF r.err = "none" THEN Some(b) ELSE backup
            /\ IF r.err # "none"
               THEN /\ pc' = "died"
                    /\ error' = r.err
                    /\ handles' = [handles EXCEPT ![i] = r.h]
                    /\ objects' = objs
                    /\ UNCHANGED <<uploads_by_cl, parent, orig_parent, idx>>
               ELSE \E prev_patchset \in GetMostRecentPatchset(r.h) :
                    LET commit_to_push == NewObject(objs)
                    IN  /\ handles' = [handles EXCEPT ![i] =
                                         IF prev_patchset = 0 THEN r.h
                                         ELSE [r.h EXCEPT !.ps = Some(prev_patchset)]]
                        /\ objects' = Append(objs, [parent |-> Val(parent),
                                                    tree |-> TreeOf(end_commit)])
                        /\ uploads_by_cl' = Append(uploads_by_cl,
                              [cl |-> i,
                               commit_to_push |-> commit_to_push,
                               new_last_uploaded_commit |-> end_commit,
                               parent |-> Val(parent),
                               prev_patchset |-> prev_patchset])
                        /\ parent' = ChainParent(parent, commit_to_push)
                        /\ orig_parent' = child_base_commit
                        /\ idx' = idx + 1
                        /\ pc' = IF idx = Len(cls) THEN "push" ELSE "commit"
                        /\ UNCHANGED error
    /\ UNCHANGED <<upstream, walkVars, pushes, change_numbers,
                   posted, config0, detail_cache, detail_log, attempts, call,
                   head, reconciled, options, prompt, textVars>>

\* Lines 5574-5579: Changelist.PrepareCherryPickSquashedCommit for cls[0] on
\* the squash hash of cls[1].
PrepareCherryPickSquashedCommit ==
    /\ pc = "create"
    /\ cherry_pick
    /\ LET b == cls[1]
           onto == config[cls[2]].gerritsquashhash
           cherry_pick_base == GetCommonAncestorWithUpstream(b)
       IN \E r \in _PrepareChange(handles[1], b), applies \in BOOLEAN :
            LET amends == r.cleared /\ SetIssueAmends(tip, head)
                objs == IF amends THEN Append(objects, Amended(tip[head]))
                        ELSE objects
                new_upload_hash == IF amends /\ head = b THEN NewObject(objects)
                                   ELSE tip[b]
                commit_to_cp == [parent |-> cherry_pick_base,
                                 tree |-> TreeOf(tip[b])]
            IN
            /\ config' = IF r.cleared THEN [config EXCEPT ![b] = ResetRecord(config[b])]
                         ELSE config
            /\ tip' = IF amends THEN [tip EXCEPT ![head] = NewObject(objects)]
                      ELSE tip
            /\ description' = IF DescriptionMade(r.err) THEN Some(b)
                               ELSE description
            /\ backup' = IF r.err = "none" THEN Some(b) ELSE backup
            /\ IF r.err # "none"
               THEN /\ applies
                    /\ pc' = "died"
                    /\ error' = r.err
                    /\ handles' = [handles EXCEPT ![1] = r.h]
                    /\ objects' = objs
                    /\ UNCHANGED <<uploads_by_cl, head>>
               ELSE IF ~IsSome(onto)
               THEN \* git checkout of no revision
                    /\ applies
                    /\ pc' = "raised"
                    /\ error' = "no_parent"
                    /\ handles' = [handles EXCEPT ![1] = r.h]
                    /\ objects' = Append(objs, commit_to_cp)
                    /\ UNCHANGED <<uploads_by_cl, head>>
               ELSE IF ~applies
               THEN \* cherry-pick --abort, checkout of the branch, DieWithError
                    /\ pc' = "died"
                    /\ error' = "cherry_pick_conflict"
                    /\ handles' = [handles EXCEPT ![1] = r.h]
                    /\ objects' = Append(objs, commit_to_cp)
                    /\ head' = CherryPickHead(applies, b, Val(onto))
                    /\ UNCHANGED uploads_by_cl
               ELSE \E prev_patchset \in GetMostRecentPatchset(r.h) :
                    LET picked == [parent |-> Val(onto),
                                   tree |-> 200 + TreeOf(tip[b])]
                        commit_to_push == NewObject(objs) + 1
                    IN  /\ handles' = [handles EXCEPT ![1] =
                                         IF prev_patchset = 0 THEN r.h
                                         ELSE [r.h EXCEPT !.ps = Some(prev_patchset)]]
                        /\ objects' = objs \o <<commit_to_cp, picked>>
                        /\ uploads_by_cl' = <<[cl |-> 1,
                               commit_to_push |-> commit_to_push,
                               new_last_uploaded_commit |-> new_upload_hash,
                               parent |-> cherry_pick_base,
                               prev_patchset |-> prev_patchset]>>
                        /\ head' = CherryPickHead(applies, b, Val(onto))
                        /\ pc' = "push"
                        /\ UNCHANGED error
    /\ UNCHANGED <<upstream, walkVars, idx, parent, orig_parent,
                   pushes, change_numbers, posted, config0, detail_cache,
                   detail_log, attempts, call, reconciled,
                   options, prompt, textVars>>

\* What the server may print: up to one `remote: <url>/<number>` line more
\* than there are uploads, in any order.
PushOutputs(n) ==
    UNION { [1..k -> 1..MaxChangeNumber] :
              k \in 0..(IF n + 1 < MaxPushLines THEN n + 1 ELSE MaxPushLines) }

\* Lines 5638-5678: the refspec, Changelist._RunGitPushWithTraces and the
\* parsing of its output.
GitPush ==
    /\ pc = "push"
    /\ pushes' = Append(pushes, PushRefspecs(uploads_by_cl))
    /\ \/ /\ pc' = "raised"
          /\ error' = "GitPushError"
          /\ UNCHANGED change_numbers
       \/ \E out \in PushOutputs(Len(uploads_by_cl)) :
          /\ change_numbers' = out
          /\ pc' = "post"
          /\ UNCHANGED error
    /\ idx' = 1
    /\ UNCHANGED <<repoVars, walkVars, handles, parent, orig_parent,
                   uploads_by_cl, posted, config0, sideVars, call, head, reconciled, options, prompt>>

\* (mutant) PostUploadUpdates that records the uploaded commit first.
PostUploadWritesHashFirst(h, new_upload, change_number) ==
    <<[key |-> "lastuploadhash",
       value |-> Some(new_upload.new_last_uploaded_commit)]>>
    \o (IF IsSome(h.issue) THEN <<>>
        ELSE <<[key |-> "gerritissue", value |-> Some(change_number)],
               [key |-> "gerritserver", value |-> Some("host")]>>)
    \o <<[key |-> "gerritpatchset",
          value |-> Some(NextPatchset(new_upload.prev_patchset))],
         [key |-> "gerritsquashhash",
          value |-> Some(new_upload.commit_to_push)]>>

\* Changelist.PostUploadUpdates on a handle whose issue has been looked up:
\* the keys it sets, in the order of the calls (SetIssue, SetPatchset and
\* the two hashes).
PostUploadWrites(h, new_upload, change_number) ==
    (IF IsSome(h.issue) THEN <<>>
     ELSE <<[key |-> "gerritissue", value |-> Some(change_number)],
            [key |-> "gerritserver", value |-> Some("host")]>>)
    \o <<[key |-> "gerritpatchset",
          value |-> Some(NextPatchset(new_upload.prev_patchset))],
         [key |-> "gerritsquashhash",
          value |-> Some(new_upload.commit_to_push)],
         [key |-> "lastuploadhash",
          value |-> Some(new_upload.new_last_uploaded_commit)]>>

\* The record after the key-value sets of `writes`, one after the other.
RECURSIVE SetKeys(_, _)
SetKeys(rec, writes) ==
    IF writes = <<>> THEN rec
    ELSE SetKeys([rec EXCEPT ![writes[1].key] = writes[1].value],
                 Tail(writes))

\* One pass of the loop of lines 5677-5678: Changelist.PostUploadUpdates for
\* uploads_by_cl[idx] with change_numbers[idx].
PostUploadUpdates ==
    /\ pc = "post"
    /\ IF idx > Len(uploads_by_cl)
       THEN /\ pc' = "done"
            /\ UNCHANGED <<config, handles, posted, idx, error>>
       ELSE IF idx > Len(change_numbers)
       THEN /\ pc' = "raised"
            /\ error' = "IndexError"
            /\ UNCHANGED <<config, handles, posted, idx>>
       ELSE LET new_upload == uploads_by_cl[idx]
                i == new_upload.cl
                b == cls[i]
                change_number == ChangeNumberFor(change_numbers, idx)
                h == GetIssue(handles[i], b)
            IN  /\ config' = [config EXCEPT ![b] =
                     SetKeys(@, PostUploadWrites(h, new_upload, change_number))]
                /\ handles' = [handles EXCEPT ![i] =
                     [h EXCEPT !.issue = IF IsSome(h.issue) THEN h.issue
                                         ELSE Some(change_number),
                               !.patchset = Some(NextPatchset(new_upload.prev_patchset))]]
                /\ posted' = Append(posted, [cl |-> i, change_number |-> change_number])
                /\ idx' = idx + 1
                /\ UNCHANGED <<pc, error>>
    /\ UNCHANGED <<tip, upstream, objects, walkVars, parent,
                   orig_parent, uploads_by_cl, pushes, change_numbers, config0, sideVars, call, head, reconciled, options, prompt>>

Next ==
    \/ PrecheckPass
    \/ PrecheckChoose
    \/ UploadRootParent
    \/ PrepareSquashedCommit
    \/ PrepareCherryPickSquashedCommit
    \/ GitPush
    \/ PostUploadUpdates

Spec == Init /\ [][Next]_vars

\* ------------------------------------------------------------------------
\* Deep stacks: a chain of n branches b1 -> b2 -> ... -> bn -> origin/main,
\* every branch with commits of its own (the tips alternate between the two
\* sides of the fork at commit 2, so each merge-base with the upstream is 2;
\* bn's merge-base with origin/main is 1).
MaxDepth == 22

DeepBranch(i) == "b" \o ToString(i)
DeepBranches == { DeepBranch(i) : i \in 1..MaxDepth }
DeepIndex(b) == CHOOSE i \in 1..MaxDepth : DeepBranch(i) = b

\* The record of a branch uploaded before last-upload-hash was recorded.
LegacyRecord(b) ==
    [UploadedRecord(b, 1) EXCEPT !.lastuploadhash = None]

InitDeep ==
    /\ \E n \in 1..MaxDepth, legacy \in BOOLEAN :
          /\ upstream = [b \in DeepBranches |->
                IF DeepIndex(b) < n
                THEN [origin |-> ".", ref |-> DeepBranch(DeepIndex(b) + 1)]
                ELSE [origin |-> "origin", ref |-> "main"]]
          /\ tip = [b \in DeepBranches |->
                IF DeepIndex(b) > n THEN 1
                ELSE IF DeepIndex(b) % 2 = 1 THEN 4 ELSE 3]
          /\ config = [b \in DeepBranches |->
                IF legacy /\ b \in {"b2", "b3"} /\ DeepIndex(b) <= n
                THEN LegacyRecord(b) ELSE NoRecord]
    /\ objects = <<>>
    /\ pc = "walk"
    /\ error = "none"
    /\ branch_ref = None
    /\ cls = <<>>
    /\ must_upload_upstream = FALSE
    /\ first_pass = TRUE
    /\ last = [branch |-> "", added |-> FALSE, first |-> FALSE, case |-> "none"]
    /\ seen = {}
    /\ cherry_pick = FALSE
    /\ handles = <<>>
    /\ idx = 0
    /\ parent = None
    /\ orig_parent = None
    /\ uploads_by_cl = <<>>
    /\ pushes = <<>>
    /\ change_numbers = <<>>
    /\ posted = <<>>
    /\ config0 = config
    /\ call = None
    /\ head = CurrentBranch
    /\ reconciled = NotReconciled
    /\ options \in [force : BOOLEAN, cherry_pick_stacked : BOOLEAN]
    /\ prompt = "none"
    /\ SideInit
    /\ NoText

SpecDeep == InitDeep /\ [][Next]_vars

\* ------------------------------------------------------------------------
\* Changelist._ComputeParent, called for the current branch as line 3163
\* calls it: remote and upstream_branch are FetchUpstreamTuple(branch).

\* The trunk names a local upstream may have.
Trunks == {"master", "main"}

\* refs/remotes/origin/main, the local ref of the target remote branch.
RemoteTip == 1

\* (mutant) the recorded squash hash is used whatever its tree.
SquashIsCurrentAlways(upstream_branch, squash) == TRUE

\* Lines 3358-3359: the tree of the upstream ref equals the tree of the
\* recorded squashed commit.
SquashIsCurrent(upstream_branch, squash) ==
    TreeOf(tip[upstream_branch]) = TreeOf(squash)

\* The outcome [kind, value, err] of the call for branch b; answer is what
\* the user types at confirm_or_exit.
_ComputeParent(b, remote, upstream_branch, custom_cl_base, force, answer) ==
    IF IsSome(custom_cl_base)
    THEN IF /\ ~IsAncestor(Val(custom_cl_base), RemoteTip)
            /\ ~force
            /\ answer = "ctrl-c"
         THEN [kind |-> "exit", value |-> None, err |-> "aborted"]
         ELSE [kind |-> "return", value |-> custom_cl_base, err |-> "none"]
    ELSE IF remote # "."
    THEN [kind |-> "return", value |-> Some(GetCommonAncestorWithUpstream(b)),
          err |-> "none"]
    ELSE IF upstream_branch = "master"
    THEN [kind |-> "return", value |-> Some(GetCommonAncestorWithUpstream(b)),
          err |-> "none"]
    ELSE IF upstream_branch = "main"
    THEN [kind |-> "return", value |-> Some(GetCommonAncestorWithUpstream(b)),
          err |-> "none"]
    ELSE LET squash == GetBranchConfig(".", upstream_branch, "gerritsquashhash")
         IN  IF ~IsSome(squash) \/ ~SquashIsCurrent(upstream_branch, Val(squash))
             THEN [kind |-> "die", value |-> None,
                   err |-> "upload_upstream_first"]
             ELSE [kind |-> "return", value |-> squash, err |-> "none"]

\* The repository before a single-change upload of b1: b1 tracks the local
\* branch b2, a local trunk, or origin/main; b2 may have been uploaded.
LocalRefs == Branches \cup {"main"}

InitParent ==
    /\ tip \in [LocalRefs -> Commits]
    /\ tip["b3"] = 1
    /\ tip["main"] \in {1, 2}
    /\ \E up1 \in {[origin |-> ".", ref |-> "b2"], [origin |-> ".", ref |-> "main"],
                    [origin |-> "origin", ref |-> "main"]} :
          upstream = [b \in LocalRefs |->
                        IF b = "b1" THEN up1
                        ELSE [origin |-> "origin", ref |-> "main"]]
    /\ \E c \in {0} \cup UploadedAt, c1 \in {0} \cup UploadedAt :
          config = [b \in LocalRefs |->
                      IF b = "b2" /\ c # 0 THEN UploadedRecord(b, c)
                      ELSE IF b = "b1" /\ c1 # 0 THEN UploadedRecord(b, c1)
                      ELSE NoRecord]
    /\ objects = <<>>
    /\ pc = "parent"
    /\ error = "none"
    /\ branch_ref = None
    /\ cls = <<>>
    /\ must_upload_upstream = FALSE
    /\ first_pass = TRUE
    /\ last = [branch |-> "", added |-> FALSE, first |-> FALSE, case |-> "none"]
    /\ seen = {}
    /\ cherry_pick = FALSE
    /\ handles = <<>>
    /\ idx = 0
    /\ parent = None
    /\ orig_parent = None
    /\ uploads_by_cl = <<>>
    /\ pushes = <<>>
    /\ change_numbers = <<>>
    /\ posted = <<>>
    /\ config0 = config
    /\ call = None
    /\ head = CurrentBranch
    /\ reconciled = NotReconciled
    /\ options \in [force : BOOLEAN, cherry_pick_stacked : {FALSE}]
    /\ prompt = "none"
    /\ SideInit
    /\ NoText

\* Lines 3163-3166: parent = self._ComputeParent(remote, upstream_branch,
\* custom_cl_base, options.force, change_desc).
ComputeParent ==
    /\ pc = "parent"
    /\ \E custom_cl_base \in {None, Some(1), Some(2), Some(3)},
          answer \in {"", "ctrl-c"} :
          LET force == options.force
              b == head
              up == FetchUpstreamTuple(b)
              r == _ComputeParent(b, up.origin, up.ref, custom_cl_base, force,
                                  answer)
          IN  /\ call' = Some([remote |-> up.origin, upstream_branch |-> up.ref,
                                custom_cl_base |-> custom_cl_base,
                                force |-> force])
              /\ parent' = r.value
              /\ pc' = IF r.kind = "return" THEN "returned" ELSE "died"
              /\ error' = r.err
    /\ UNCHANGED <<repoVars, walkVars, handles, idx, orig_parent,
                   uploads_by_cl, pushes, change_numbers, posted, config0, sideVars,
                   head, reconciled, options, prompt>>

NextParent == ComputeParent

SpecParent == InitParent /\ [][NextParent]_vars

\* ------------------------------------------------------------------------
\* Changelist._GetChangeDetail on one handle.

\* No upload is running: the state of the invocation while an operation is
\* looked at on its own.
Idle ==
    /\ tip = [b \in Branches |-> 1]
    /\ upstream = [b \in Branches |-> [origin |-> "origin", ref |-> "main"]]
    /\ config = [b \in Branches |-> NoRecord]
    /\ objects = <<>>
    /\ pc = "idle"
    /\ error = "none"
    /\ branch_ref = None
    /\ cls = <<>>
    /\ must_upload_upstream = FALSE
    /\ first_pass = TRUE
    /\ last = [branch |-> "", added |-> FALSE, first |-> FALSE, case |-> "none"]
    /\ seen = {}
    /\ cherry_pick = FALSE
    /\ handles = <<>>
    /\ idx = 0
    /\ parent = None
    /\ orig_parent = None
    /\ uploads_by_cl = <<>>
    /\ pushes = <<>>
    /\ change_numbers = <<>>
    /\ posted = <<>>
    /\ config0 = config
    /\ call = None
    /\ head = CurrentBranch
    /\ reconciled = NotReconciled
    /\ options = Interactive
    /\ prompt = "none"

\* Calls made in one run.
MaxDetailCalls == 2

\* The option strings a caller may pass.
DetailOptions == {"CURRENT_REVISION", "current_revision", "CURRENT_COMMIT"}

\* str.upper of an option.
Upper(o) == IF o = "current_revision" THEN "CURRENT_REVISION" ELSE o

\* Lines 2716-2722: CURRENT_COMMIT is appended when the options as passed
\* hold CURRENT_REVISION or ALL_REVISIONS; then every option is upper-cased.
OptionsSet(opts) ==
    LET appended == IF "CURRENT_REVISION" \in opts \/ "ALL_REVISIONS" \in opts
                    THEN opts \cup {"CURRENT_COMMIT"} ELSE opts
    IN  { Upper(o) : o \in appended }

\* (mutant) a cached entry answers the requests that are broader than it.
CoversReversed(cached_options_set, options_set) ==
    cached_options_set \subseteq options_set

\* Line 2731: options_set.issubset(cached_options_set).
Covers(cached_options_set, options_set) ==
    options_set \subseteq cached_options_set

\* Lines 2724-2732: the positions of the cached entries that can answer.
CachedAnswers(cache_key, options_set) ==
    { k \in 1..Len(detail_cache[cache_key]) :
        Covers(detail_cache[cache_key][k].options, options_set) }

\* (mutant) whatever the server answered is remembered.
CachesReplyAlways(http_status) == TRUE

\* Lines 2734-2744: the append to the cache is reached only when
\* gerrit_util.GetChangeDetail returned.
CachesReply(http_status) == http_status = 200

\* Lines 2737-2742: what a GerritError of the server becomes.
RaisedFor(http_status) ==
    IF http_status = 404 THEN "GerritChangeNotExists" ELSE "GerritError"

\* One call of _GetChangeDetail(options) while the handle's issue is
\* `issue`; http_status is the server's answer if it is asked.
GetChangeDetail ==
    /\ pc = "idle"
    /\ Len(detail_log) < MaxDetailCalls
    /\ \E issue \in DetailIssues, opts \in SUBSET DetailOptions,
          http_status \in {200, 404, 500} :
          LET cache_key == issue
              options_set == OptionsSet(opts)
              hits == CachedAnswers(cache_key, options_set)
              call_no == Len(detail_log) + 1
              entry(source, outcome, status, data) ==
                  [issue |-> issue, requested |-> opts,
                   options_set |-> options_set, source |-> source,
                   outcome |-> outcome, http_status |-> status, data |-> data]
          IN  IF hits # {}
              THEN LET k == CHOOSE x \in hits : \A y \in hits : x <= y
                   IN  /\ http_status = 200
                       /\ detail_log' = Append(detail_log,
                            entry("cache", "data", 0,
                                  detail_cache[cache_key][k].data))
                       /\ UNCHANGED detail_cache
              ELSE LET data == [fields |-> options_set, fetched |-> call_no]
                   IN  /\ detail_log' = Append(detail_log,
                            IF http_status = 200
                            THEN entry("server", "data", 200, data)
                            ELSE entry("server", RaisedFor(http_status),
                                       http_status, [fields |-> {}, fetched |-> 0]))
                       /\ detail_cache' =
                            IF CachesReply(http_status)
                            THEN [detail_cache EXCEPT ![cache_key] =
                                    Append(@, [options |-> options_set,
                                               data |-> data])]
                            ELSE detail_cache
    /\ UNCHANGED <<mainVars, attempts, description, backup, textVars>>

InitDetail == Idle /\ SideInit /\ NoText

NextDetail == GetChangeDetail

SpecDetail == InitDetail /\ [][NextDetail]_vars

\* ------------------------------------------------------------------------
\* Changelist.CMDUploadChange: the upload of the current branch alone.

\* The remote branches the current branch may track, and what
\* gerrit_util.GetProjectHead may answer.
RemoteBranches == {"refs/remotes/origin/master", "refs/remotes/origin/main",
                   "refs/remotes/origin/release"}
ProjectHeads == {"refs/heads/master", "refs/heads/main"}

\* GetTargetRef(remote, remote_branch, None): refs/remotes/origin/<x>
\* becomes refs/heads/<x>.
GetTargetRef(remote_branch) ==
    CASE remote_branch = "refs/remotes/origin/master" -> "refs/heads/master"
      [] remote_branch = "refs/remotes/origin/main" -> "refs/heads/main"
      [] OTHER -> "refs/heads/release"

\* (mutant) the upload is made again after any failed push.
RetriesUploadAlways(remote_branch, project_head, branch) == TRUE

\* Lines 3104-3114: after a GitPushError the upload is made again only when
\* the remote branch is the old or the new default branch and the head of
\* the project is another branch than the one pushed to.
RetriesUpload(remote_branch, project_head, branch) ==
    /\ remote_branch \in {"refs/remotes/origin/master",
                          "refs/remotes/origin/main"}
    /\ project_head # branch

\* Lines 3134-3147: what the reconciler did when the upload of an issue
\* found the server's current revision to differ from the recorded squash
\* hash ("not_called" otherwise): the outcomes, without their details.
ExternalChanges(b) ==
    LET h == GetIssue(FreshHandle, b)
    IN  IF ~IsSome(h.issue) \/ ~IsSome(config[b].gerritsquashhash)
        THEN { [kind |-> "not_called", external_ps |-> 0, base |-> 0] }
        ELSE { [kind |-> "not_called", external_ps |-> 0, base |-> 0] }
             \cup { [kind |-> r.kind, external_ps |-> r.external_ps,
                     base |-> r.base] :
                    r \in _UpdateWithExternalChanges(FreshHandle, b) }

\* The exits of _CMDUploadChange that are preceded by SaveDescriptionBackup:
\* DieWithError(..., change_desc) in _ComputeParent (line 3360), and all
\* that lies behind line 3196.  The conflict of the reconciler (line 3492)
\* is a DieWithError without the description.
BacksUp(outcome) == outcome \in {"uploaded", "GitPushError",
                                  "upload_upstream_first"}

\* Changelist._CMDUploadChange(..., branch): the reconciler may run, the
\* parent is computed, the squashed commit is pushed to refs/for/<branch>.
\* ext: what the reconciler did; pushed: git push exited with 0.  The
\* result: what the call did and how it ended.
_CMDUploadChange(branch, custom_cl_base, force, answer, ext, pushed) ==
    LET b == head
        up == FetchUpstreamTuple(b)
        r == _ComputeParent(b, up.origin, up.ref, custom_cl_base, force, answer)
        external_parent == IF ReturnsExternalBase(ext.kind) THEN Some(ext.base)
                           ELSE None
        ended == IF ext.kind = "conflict" THEN "patch_conflict"
                 ELSE IF ext.kind = "aborted" THEN "aborted"
                 ELSE IF IsSome(external_parent) THEN "none"
                 ELSE IF r.kind # "return" THEN r.err
                 ELSE "none"
        parent_used == IF IsSome(external_parent) THEN external_parent
                       ELSE r.value
    IN  [branch |-> branch, force |-> force, ext |-> ext,
         parent |-> IF ended = "none" THEN parent_used ELSE None,
         push |-> IF ended = "none"
                  THEN <<[commit |-> NewObject(objects)
                                       + (IF ext.kind = "applied" THEN 1 ELSE 0),
                          target |-> branch, options_of |-> 1]>>
                  ELSE <<>>,
         outcome |-> IF ended # "none" THEN ended
                     ELSE IF pushed THEN "uploaded" ELSE "GitPushError"]

\* What an attempt leaves behind: the call is recorded; the commit of the
\* external changes (clean apply) or the external patchset (conflict); the
\* squashed commit and its push, if it got that far; the description in
\* progress and, where the exit saves it, its backup.
Attempted(a) ==
    LET b == head
        objs == IF a.ext.kind = "applied"
                THEN Append(objects, [parent |-> tip[b],
                                      tree |-> 100 + TreeOf(tip[b])])
                ELSE objects
        new_tip == IF a.ext.kind = "applied" THEN NewObject(objects) ELSE tip[b]
        objs_tree == IF a.ext.kind = "applied" THEN 100 + TreeOf(tip[b])
                     ELSE TreeOf(tip[b])
    IN  /\ attempts' = Append(attempts, a)
        /\ parent' = a.parent
        /\ pushes' = IF a.push = <<>> THEN pushes ELSE Append(pushes, a.push)
        /\ tip' = [tip EXCEPT ![b] = new_tip]
        /\ config' = IF RecordsExternalPatchset(a.ext.kind)
                     THEN [config EXCEPT ![b].gerritpatchset =
                                            Some(a.ext.external_ps)]
                     ELSE config
        /\ objects' = IF a.push = <<>> THEN objs
                      ELSE Append(objs, [parent |-> Val(a.parent),
                                         tree |-> objs_tree])
        /\ description' = Some(b)
        /\ backup' = IF BacksUp(a.outcome) THEN Some(b) ELSE backup

\* Lines 3098-3114: the first _CMDUploadChange, and the handling of its
\* GitPushError.
CMDUploadChange ==
    /\ pc = "parent"
    /\ \E remote_branch \in RemoteBranches, project_head \in ProjectHeads,
          custom_cl_base \in {None, Some(1)}, answer \in {"", "ctrl-c"},
          ext \in ExternalChanges(head), pushed \in BOOLEAN :
          LET branch == GetTargetRef(remote_branch)
              a == _CMDUploadChange(branch, custom_cl_base, options.force,
                                    answer, ext, pushed)
          IN  /\ Attempted(a)
              /\ call' = Some([remote_branch |-> remote_branch,
                                project_head |-> project_head,
                                custom_cl_base |-> custom_cl_base])
              /\ IF a.outcome = "uploaded"
                 THEN pc' = "done" /\ UNCHANGED <<error, options>>
                 ELSE IF a.outcome # "GitPushError"
                 THEN pc' = "died" /\ error' = a.outcome /\ UNCHANGED options
                 ELSE IF RetriesUpload(remote_branch, project_head, branch)
                 THEN /\ pc' = "retry"
                      /\ options' = [options EXCEPT !.force = TRUE]
                      /\ UNCHANGED error
                 ELSE pc' = "died" /\ error' = "GitPushError"
                      /\ UNCHANGED options
    /\ UNCHANGED <<upstream, walkVars, handles, idx, orig_parent,
                   uploads_by_cl, change_numbers, posted, config0, head,
                   reconciled, prompt, detail_cache, detail_log, textVars>>

\* Lines 3116-3125: the second _CMDUploadChange, on the head of the project.
RetryUploadChange ==
    /\ pc = "retry"
    /\ \E answer \in {"", "ctrl-c"}, ext \in ExternalChanges(head),
          pushed \in BOOLEAN :
          LET c == Val(call)
              a == _CMDUploadChange(c.project_head, c.custom_cl_base,
                                    options.force, answer, ext, pushed)
          IN  /\ Attempted(a)
              /\ IF a.outcome = "uploaded"
                 THEN pc' = "done" /\ UNCHANGED error
                 ELSE pc' = "died" /\ error' = a.outcome
    /\ UNCHANGED <<upstream, walkVars, handles, idx, orig_parent,
                   uploads_by_cl, change_numbers, posted, config0, call, head,
                   reconciled, options, prompt, detail_cache, detail_log,
                   textVars>>

\* An upload invocation of either kind: of the current branch alone, or of
\* the stack it is part of.
InitSingle ==
    /\ InitParent
    /\ tip["b1"] = 4
    /\ tip["b2"] \in {2, 3}
    /\ tip["main"] = 1

InitUpload == InitSingle \/ Init

NextUpload == CMDUploadChange \/ RetryUploadChange \/ Next

SpecUpload == InitUpload /\ [][NextUpload]_vars

\* ------------------------------------------------------------------------
\* Properties.

\* The object a created commit id names.
Object(c) == objects[c - ObjectBase]

\* C1: without cherry-pick, UploadAllSquashed creates the commits of the
\* stack root first; the commit of every branch after the root has as its
\* sole parent the commit_to_push created for the branch before it, so the
\* commits form one linear chain without a cycle, and only the root's commit
\* can have a commit of the local history (trunk or raw) as parent.
C1_LinearChain ==
    ~cherry_pick =>
      \A k \in 1..Len(uploads_by_cl) :
        LET u == uploads_by_cl[k]
        IN  /\ u.cl = Len(cls) + 1 - k
            /\ Object(u.commit_to_push).parent = u.parent
            /\ u.commit_to_push \notin Ancestors(u.parent)
            /\ k > 1 => /\ u.parent = uploads_by_cl[k - 1].commit_to_push
                        /\ u.parent \notin Commits
            /\ \A j \in 1..k :
                 uploads_by_cl[j].commit_to_push \in Ancestors(u.commit_to_push)

C1_Witness ==
    /\ pc = "done"
    /\ ~cherry_pick
    /\ Len(uploads_by_cl) = 3

C3_PositionalPairing ==
    /\ Len(posted) <= Len(change_numbers)
    /\ Len(posted) <= Len(uploads_by_cl)
    /\ \A k \in 1..Len(posted) :
         /\ posted[k].change_number = change_numbers[k]
         /\ posted[k].cl = uploads_by_cl[k].cl
         /\ ~cherry_pick => posted[k].cl = Len(cls) + 1 - k

C3_Witness ==
    /\ pc = "done"
    /\ Len(posted) = 3
    /\ posted[1].change_number # posted[2].change_number
    /\ posted[3].change_number # posted[2].change_number

\* C4: a PostUploadUpdates call leaves the branch's record with the issue it
\* had, or else the parsed change number; patchset = prev_patchset + 1,
\* prev_patchset being the latest patchset the server reported to the
\* handle before the push (0 without an issue, so a first upload records
\* patchset 1); gerritsquashhash = commit_to_push; last-upload-hash =
\* new_last_uploaded_commit.  No other branch's record changes.
C4_PostUploadStep ==
    (Len(posted') = Len(posted) + 1) =>
      LET k == Len(posted')
          u == uploads_by_cl[k]
          b == cls[u.cl]
      IN  /\ config'[b].gerritissue =
               IF IsSome(config[b].gerritissue) THEN config[b].gerritissue
               ELSE Some(change_numbers[k])
          /\ u.prev_patchset =
               IF IsSome(config[b].gerritissue) THEN Val(handles[u.cl].ps)
               ELSE 0
          /\ config'[b].gerritpatchset = Some(u.prev_patchset + 1)
          /\ ~IsSome(config[b].gerritissue) =>
               config'[b].gerritpatchset = Some(1)
          /\ config'[b].gerritsquashhash = Some(u.commit_to_push)
          /\ config'[b].lastuploadhash = Some(u.new_last_uploaded_commit)
          /\ \A o \in Branches \ {b} : config'[o] = config[o]

C4_RecordAfterUpload ==
    /\ [][C4_PostUploadStep]_vars
    /\ [](pc = "done" =>
            \A k \in 1..Len(uploads_by_cl) :
              LET u == uploads_by_cl[k]
                  b == cls[u.cl]
              IN  /\ IsSome(config[b].gerritissue)
                  /\ config[b].gerritpatchset = Some(u.prev_patchset + 1)
                  /\ config[b].gerritsquashhash = Some(u.commit_to_push)
                  /\ config[b].lastuploadhash =
                       Some(u.new_last_uploaded_commit))

C4_Witness ==
    /\ pc = "done"
    /\ \E k \in 1..Len(uploads_by_cl) :
         /\ config0[cls[uploads_by_cl[k].cl]] = NoRecord
         /\ config[cls[uploads_by_cl[k].cl]].gerritpatchset = Some(1)
    /\ \E k \in 1..Len(uploads_by_cl) :
         /\ uploads_by_cl[k].prev_patchset = 2
         /\ config[cls[uploads_by_cl[k].cl]].gerritissue
              = config0[cls[uploads_by_cl[k].cl]].gerritissue

\* The branches of the stack the walk collected.
Stack == { cls[i] : i \in 1..Len(cls) }

\* The handle position(s) of branch b in the stack.
PositionsOf(b) == { i \in 1..Len(cls) : cls[i] = b }

\* Branch b's change was found MERGED while its commit was prepared.
FoundMerged(b) ==
    \E i \in PositionsOf(b) :
       /\ i \in DOMAIN handles
       /\ handles[i].status = Some("MERGED")

\* C5 as claimed: after a failed push every key of every branch of the
\* stack has the value it had when the invocation started.
C5_NothingPersistedOnPushFailure ==
    error = "GitPushError" => \A b \in Stack : config[b] = config0[b]

\* C5 (amended): a failed push aborts the batch and nothing is written by or
\* after it (no PostUploadUpdates runs); compared with the start of the
\* invocation a record differs only if the branch's change was found MERGED
\* and the user chose to start a new change, which unset every key of that
\* branch before the push.
C5_PushFailureWritesNothing ==
    error = "GitPushError" =>
      /\ pc = "raised"
      /\ posted = <<>>
      /\ \A b \in Branches :
           \/ config[b] = config0[b]
           \/ /\ config[b] = NoRecord
              /\ b \in Stack
              /\ FoundMerged(b)

C5_Witness ==
    /\ error = "GitPushError"
    /\ Len(uploads_by_cl) >= 2
    /\ \E b \in Stack : config0[b] # NoRecord /\ config[b] = NoRecord
    /\ \E b \in Stack : config0[b] # NoRecord /\ config[b] = config0[b]

\* C6 as claimed: no record differs from its initial value until the push of
\* the invocation has succeeded.
C6_NoWriteBeforePush ==
    config # config0 => (pc \in {"post", "done"} \/ error = "IndexError")

\* C6 (amended): a record is written only (a) by the write-back after the
\* push has succeeded, (b) by EnsureCanUploadPatchset, which unsets every
\* key of a branch whose change is MERGED once the user agrees to start a
\* new change, or (c) by the reconciler, which records the external patchset
\* number when the patch did not apply cleanly, just before its fatal exit.
C6_WriteStep ==
    config' # config =>
      \/ /\ pc = "post"
         /\ Len(pushes) = 1
         /\ error = "none"
         /\ Len(posted') = Len(posted) + 1
      \/ /\ pc \in {"create", "commit"}
         /\ pushes = <<>>
         /\ \E b \in Stack :
              /\ config' = [config EXCEPT ![b] = NoRecord]
              /\ \E i \in PositionsOf(b) :
                   /\ handles'[i].status = Some("MERGED")
                   /\ ~IsSome(handles'[i].issue)
      \/ /\ pc = "create"
         /\ pc' = "died"
         /\ error' = "patch_conflict"
         /\ Len(cls) = 1
         /\ config' = [config EXCEPT ![cls[1]].gerritpatchset = handles'[1].ps]

C6_OnlyConfirmedWrites == [][C6_WriteStep]_vars

C6_Witness ==
    /\ error = "patch_conflict"
    /\ config[cls[1]].gerritpatchset = Some(2)
    /\ config0[cls[1]].gerritpatchset = Some(1)

\* The branch passed the case analysis of the walk (it was examined and was
\* not an empty current branch).
Analysed(b) ==
    /\ b \in seen
    /\ ~(error = "nothing_to_commit" /\ last.branch = b)

\* The merge-base of b with its upstream.  (The reconciler may add a commit
\* on top of b; the merge-base is the same.)
BaseOf(b) == GetCommonAncestorWithUpstream(b)

\* b tracks a local upstream whose last-upload-hash, at the start of the
\* invocation, equals b's merge-base with it.
CoveredByUpstream(b) ==
    /\ upstream[b].origin = "."
    /\ config0[upstream[b].ref].lastuploadhash = Some(BaseOf(b))

\* The upstream of b and every branch above it.
Above(b) == Tracked(upstream, upstream[b].ref)

\* C7 as claimed: when the examined branch's local upstream has a
\* last-upload-hash equal to the branch's merge-base, the walk stops; that
\* upstream and every branch above it are absent from the stack and their
\* records are left untouched.
C7_StopsAtCoveredUpstream ==
    \A b \in Branches :
      (Analysed(b) /\ CoveredByUpstream(b)) =>
        /\ last.branch = b
        /\ pc # "walk"
        /\ \A a \in Above(b) : a \notin Stack /\ config[a] = config0[a]

\* C7 (amended): ... the walk stops; that upstream and every branch above it
\* are absent from the stack and their records are left untouched, except
\* for branches the walk had already examined on its way (upstream tracking
\* that is cyclic).
C7_StopsAtCoveredUpstreamUnlessCyclic ==
    \A b \in Branches :
      (Analysed(b) /\ CoveredByUpstream(b)) =>
        /\ last.branch = b
        /\ pc # "walk"
        /\ \A a \in Above(b) \ seen : a \notin Stack /\ config[a] = config0[a]

C7_Witness ==
    /\ pc = "done"
    /\ CoveredByUpstream(last.branch)
    /\ Len(cls) = 2
    /\ upstream[last.branch].ref \notin seen
    /\ config0[upstream[last.branch].ref] # NoRecord

\* b tracks a local upstream that had no last-upload-hash when the
\* invocation started.
UpstreamNeverUploaded(b) ==
    /\ upstream[b].origin = "."
    /\ ~IsSome(config0[upstream[b].ref].lastuploadhash)

\* b has commits of its own over its merge-base with its upstream.
NonEmpty(b) == tip[b] # BaseOf(b)

UpstreamAhead(b) ==
    /\ upstream[b].origin = "."
    /\ IsSome(config0[upstream[b].ref].lastuploadhash)
    /\ BaseOf(b) # Val(config0[upstream[b].ref].lastuploadhash)
    /\ IsAncestor(BaseOf(b), Val(config0[upstream[b].ref].lastuploadhash))

\* Nothing has been created, pushed or written.
NothingDone ==
    /\ objects = <<>>
    /\ uploads_by_cl = <<>>
    /\ pushes = <<>>
    /\ config = config0

\* C9 as claimed: once the walk has examined a branch whose upstream is
\* strictly ahead, the upload has ended in the divergence error with
\* nothing created, pushed or written.
C9_DivergenceIsFatal ==
    \A b \in seen :
      UpstreamAhead(b) =>
        /\ pc = "died"
        /\ error = "diverged"
        /\ NothingDone

\* C9 (amended): ... the upload has ended in a fatal error with nothing
\* created, pushed or written: the divergence error, or `nothing to commit`
\* when the branch is the current branch and has an empty diff (that error
\* is raised before the upstream is looked at).
C9_AheadIsFatal ==
    \A b \in seen :
      UpstreamAhead(b) =>
        /\ pc = "died"
        /\ NothingDone
        /\ last.branch = b
        /\ \/ error = "diverged"
           \/ /\ error = "nothing_to_commit"
              /\ b = CurrentBranch
              /\ ~NonEmpty(b)
              /\ seen = {b}

C9_Witness ==
    /\ error = "diverged"
    /\ Len(cls) >= 2
    /\ UpstreamAhead(last.branch)

\* The stack is in the order of its discovery, child first: it starts at the
\* current branch and every later entry is above the one before it.
ChildToRoot ==
    /\ Len(cls) >= 1 => cls[1] = CurrentBranch
    /\ \A i \in 1..(Len(cls) - 1) : cls[i + 1] \in Above(cls[i])

\* The commits are created root first.
RootToChild ==
    ~cherry_pick =>
      \A k \in 1..Len(uploads_by_cl) : uploads_by_cl[k].cl = Len(cls) + 1 - k

\* C10 as claimed: an examined branch with an empty diff is left out of the
\* stack and never aborts the upload; one with a non-empty diff is in the
\* stack; discovery is child-to-root, processing root-to-child.
C10_EmptyBranchNeverAborts ==
    /\ \A b \in seen :
         IF NonEmpty(b) THEN b \in Stack
         ELSE b \notin Stack /\ error # "nothing_to_commit"
    /\ ChildToRoot
    /\ RootToChild

\* C10 (amended), one pass of the walk: a non-empty branch is appended to
\* the stack; an empty branch above the current one is left out, the walk
\* then goes on to its upstream unless the walk's own cases end it (root
\* reached, upstream covers the base, upstream ahead); an empty current
\* branch ends the upload with `nothing to commit`.
C10_PassStep ==
    (pc = "walk" /\ Len(cls) <= _MAX_STACKED_BRANCHES_UPLOAD) =>
      LET b == IF IsSome(branch_ref) THEN Val(branch_ref) ELSE CurrentBranch
      IN  /\ last'.branch = b
          /\ NonEmpty(b) => cls' = Append(cls, b)
          /\ (~NonEmpty(b) /\ first_pass) =>
               /\ cls' = cls
               /\ pc' = "died"
               /\ error' = "nothing_to_commit"
          /\ (~NonEmpty(b) /\ ~first_pass) =>
               /\ cls' = cls
               /\ error' # "nothing_to_commit"
               /\ pc' = "walk" => branch_ref' = Some(upstream[b].ref)
               /\ pc' = "choose" =>
                    (upstream[b].origin # "." \/ CoveredByUpstream(b))
               /\ pc' = "died" => (error' = "diverged" /\ UpstreamAhead(b))

C10_EmptyMidStackSkipped ==
    /\ [][C10_PassStep]_vars
    /\ [](ChildToRoot /\ RootToChild)
    /\ [](error = "nothing_to_commit" =>
            (seen = {CurrentBranch} /\ ~NonEmpty(CurrentBranch)))

C10_Witness ==
    /\ pc = "done"
    /\ ~cherry_pick
    /\ Len(cls) = 2
    /\ Cardinality(seen) = 3
    /\ \E b \in seen : ~NonEmpty(b) /\ b \notin Stack

\* C11 as claimed: the walk never returns a stack of more than
\* _MAX_STACKED_BRANCHES_UPLOAD branches, and a walk that has collected more
\* ends in a fatal error: nothing is created or pushed for it.
C11_StackCappedAt20 ==
    Len(cls) > _MAX_STACKED_BRANCHES_UPLOAD =>
      /\ pc \in {"walk", "died"}
      /\ objects = <<>>
      /\ pushes = <<>>

\* The _ComputeParent call has ended, by return or by a fatal exit.
Called == IsSome(call) /\ pc \in {"returned", "died"}

\* The merge-base GetCommonAncestorWithUpstream yields for the current
\* branch.
CallMergeBase == MergeBase(tip[CurrentBranch], UpstreamTip(CurrentBranch))

\* Steps (2) to (4) of the decision table, for a call without custom base.
TableWithoutCustomBase ==
    LET a == Val(call)
        squash == config[a.upstream_branch].gerritsquashhash
    IN  IF a.remote # "." \/ a.upstream_branch \in Trunks
        THEN pc = "returned" /\ parent = Some(CallMergeBase)
        ELSE IF /\ IsSome(squash)
                /\ TreeOf(Val(squash)) = TreeOf(tip[a.upstream_branch])
        THEN pc = "returned" /\ parent = squash
        ELSE pc = "died" /\ error = "upload_upstream_first"

\* The upstream of the call is a local branch that is not the trunk.
LocalNonTrunkUpstream ==
    Val(call).remote = "." /\ Val(call).upstream_branch \notin Trunks

\* The call returned a commit of the local history of its upstream branch.
ReturnedRawUpstreamCommit ==
    /\ pc = "returned"
    /\ Val(parent) \in Ancestors(tip[Val(call).upstream_branch])

\* C12 as claimed: a supplied custom base is returned; otherwise steps (2)
\* to (4); and no call returns a raw local commit of a non-trunk local
\* upstream.
C12_DecisionTable ==
    Called =>
      /\ IF IsSome(Val(call).custom_cl_base)
         THEN pc = "returned" /\ parent = Val(call).custom_cl_base
         ELSE TableWithoutCustomBase
      /\ LocalNonTrunkUpstream => ~ReturnedRawUpstreamCommit

\* C12 (amended): a supplied custom base is returned, unless it is not an
\* ancestor of the target remote branch, the upload is not forced and the
\* user aborts at the confirmation; otherwise steps (2) to (4); and a call
\* without custom base never returns a raw local commit of a non-trunk
\* local upstream.
C12_DecisionTableWithConfirmation ==
    Called =>
      IF IsSome(Val(call).custom_cl_base)
      THEN \/ pc = "returned" /\ parent = Val(call).custom_cl_base
           \/ /\ pc = "died" /\ error = "aborted"
              /\ ~Val(call).force
              /\ ~IsAncestor(Val(Val(call).custom_cl_base), RemoteTip)
      ELSE /\ TableWithoutCustomBase
           /\ LocalNonTrunkUpstream => ~ReturnedRawUpstreamCommit

C12_Witness ==
    /\ Called
    /\ ~IsSome(Val(call).custom_cl_base)
    /\ LocalNonTrunkUpstream
    /\ pc = "returned"
    /\ parent = Some(OldSquash("b2"))

\* The ids of the last n commit objects created.
LastCreated(objs, n) == { ObjectBase + k : k \in (Len(objs) - n + 1)..Len(objs) }

\* C14 as claimed: a PrepareSquashedCommit call, whether it returns or
\* fails, leaves every branch ref and HEAD where they were, and creates at
\* most one commit object, whose tree is end_commit's tree and whose sole
\* parent is `parent`.
C14_PrepareStep ==
    pc = "commit" =>
      /\ tip' = tip
      /\ head' = head
      /\ \/ objects' = objects
         \/ /\ Len(objects') = Len(objects) + 1
            /\ Len(uploads_by_cl') = Len(uploads_by_cl) + 1
            /\ LET u == uploads_by_cl'[Len(uploads_by_cl')]
               IN  /\ u.commit_to_push = NewObject(objects)
                   /\ objects'[Len(objects')] =
                        [parent |-> Val(parent),
                         tree |-> TreeOf(u.new_last_uploaded_commit)]

C14_NoRefMutated == [][C14_PrepareStep]_vars

\* C15: a PrepareCherryPickSquashedCommit call ends with the original
\* branch checked out.  When the cherry-pick does not apply the call is
\* fatal, nothing is returned and no branch ref points to the commit the
\* attempt created; when it applies one NewUpload is returned and no branch
\* ref points to the commits made for it.
C15_CherryPickStep ==
    (pc = "create" /\ cherry_pick) =>
      /\ head' = head
      /\ head' = cls[1]
      /\ error' = "cherry_pick_conflict" =>
           /\ pc' = "died"
           /\ uploads_by_cl' = <<>>
           /\ Len(objects') > Len(objects)
           /\ \A b \in Branches : tip'[b] \notin LastCreated(objects', 1)
      /\ pc' = "push" =>
           /\ Len(uploads_by_cl') = 1
           /\ uploads_by_cl'[1].commit_to_push \in LastCreated(objects', 1)
           /\ \A b \in Branches : tip'[b] \notin LastCreated(objects', 2)

C15_BranchRestored == [][C15_CherryPickStep]_vars

C15_Witness ==
    /\ error = "cherry_pick_conflict"
    /\ pc = "died"
    /\ head = CurrentBranch
    /\ Len(objects) >= 1

\* The root of the stack being uploaded and the step that chooses its parent.
Root == cls[Len(cls)]
RootParentStep == pc = "create" /\ ~cherry_pick /\ pc' \in {"commit", "died"}

\* What the decision table of _ComputeParent yields for the root.
RootTable ==
    _ComputeParent(Root, FetchUpstreamTuple(Root).origin,
                   FetchUpstreamTuple(Root).ref, None, FALSE, "")

\* The reconciler returned a base during the step.
ReconcilerGaveBase == reconciled'.kind \in {"base", "applied"}

\* C13 as claimed: the parent of the root is what the decision table of
\* _ComputeParent yields for it (a fatal exit where the table has one),
\* unless exactly one branch is uploaded and the reconciler returned a
\* base; with more than one branch the reconciler is not consulted.
C13_RootParentIsTable ==
    [][RootParentStep =>
         /\ Len(cls) > 1 => reconciled'.kind = "skipped"
         /\ reconciled'.kind \in {"skipped", "none", "declined", "override"} =>
              IF RootTable.kind = "return"
              THEN pc' = "commit" /\ parent' = RootTable.value
              ELSE pc' = "died"
         /\ ReconcilerGaveBase => Len(cls) = 1 /\ pc' = "commit"]_vars

\* The local branches above b: its upstream, the upstream of that one, ...
\* up to the first that is a remote ref or a trunk (at most k of them).
RECURSIVE LocalAncestors(_, _)
LocalAncestors(b, k) ==
    IF k = 0 \/ FetchUpstreamTuple(b).origin # "."
         \/ FetchUpstreamTuple(b).ref \in {"master", "main"}
    THEN <<>>
    ELSE <<FetchUpstreamTuple(b).ref>>
           \o LocalAncestors(FetchUpstreamTuple(b).ref, k - 1)

\* C13 (amended): the parent of the root is the recorded squash hash of the
\* closest local ancestor that has one, taken as recorded (its tree is not
\* compared with the upstream ref, and the step has no fatal exit of its
\* own), and the merge-base with the upstream when a remote or trunk ref is
\* reached first; the base the reconciler returned is used instead when
\* exactly one branch is uploaded, and with more than one branch the
\* reconciler is not consulted.
C13_RootParentIsClosestSquash ==
    [][RootParentStep =>
         LET chain == LocalAncestors(Root, Cardinality(Branches))
             uploaded == { i \in 1..Len(chain) :
                             IsSome(config[chain[i]].gerritsquashhash) }
         IN  /\ Len(cls) > 1 => reconciled'.kind = "skipped"
             /\ reconciled'.kind \in {"skipped", "none", "declined", "override"} =>
                  /\ pc' = "commit"
                  /\ IF uploaded = {}
                     THEN parent' = Some(MergeBase(tip[Root], UpstreamTip(Root)))
                     ELSE \E i \in uploaded :
                            /\ \A j \in uploaded : i <= j
                            /\ parent' = config[chain[i]].gerritsquashhash
             /\ ReconcilerGaveBase => Len(cls) = 1 /\ pc' = "commit"
             /\ pc' = "died" => reconciled'.kind \in {"aborted", "conflict"}]_vars

\* A stack of two whose root tracks an uploaded local branch: the root
\* commit is about to be built on that branch's recorded squash hash.
C13_Witness ==
    /\ pc = "commit"
    /\ idx = 1
    /\ ~cherry_pick
    /\ Len(cls) = 2
    /\ reconciled.kind = "skipped"
    /\ FetchUpstreamTuple(Root).origin = "."
    /\ parent = config[FetchUpstreamTuple(Root).ref].gerritsquashhash
    /\ IsSome(parent)

\* The reconciler compared the recorded patchset with a later remote one
\* during the step.
ComparedPatchsets ==
    /\ reconciled'.local_ps > 0
    /\ reconciled'.external_ps > reconciled'.local_ps

\* The reconciler returned None before any prompt and the step left the
\* branches, the objects and the records as they were.
SkippedReconciliation ==
    /\ reconciled'.kind = "none"
    /\ pc' = "commit"
    /\ UNCHANGED <<tip, objects, config, head>>

Mismatches == {"local_base", "patchset_bases", "parents"}

\* C17 as claimed: once the reconciler has found the parents of the two
\* revisions to differ the upload has ended fatally, and nothing is pushed.
C17_MismatchIsFatal ==
    reconciled.why \in Mismatches => pc = "died" /\ pushes = <<>>

\* C17 (amended): on a mismatch of parents the reconciler does not apply
\* the external changes and asks the user: on Ctrl+C the upload ends, on
\* Enter it goes on without them, to a push that overrides them.
C17_MismatchAsksToOverride ==
    [][RootParentStep /\ reconciled'.why \in Mismatches =>
         /\ UNCHANGED <<tip, objects, config, head>>
         /\ IF reconciled'.answer = "ctrl-c"
            THEN pc' = "died" /\ error' = "aborted"
            ELSE /\ pc' = "commit"
                 /\ error' = error
                 /\ reconciled'.kind = "override"]_vars

\* The parents of the two patchsets differed, the user pressed Enter and
\* the branch was pushed.
C17_Witness ==
    /\ reconciled.why \in {"patchset_bases", "parents"}
    /\ reconciled.kind = "override"
    /\ Len(pushes) = 1
    /\ pc = "done"

\* C18: a clean apply of the external diff adds one commit on top of the
\* branch and the upload goes on with the external base as the parent; an
\* apply with conflicts records the external patchset as the branch's
\* patchset and ends the upload with a fatal error, and from that state the
\* reconciler of a new invocation that sees the same latest patchset
\* returns at once, before looking at any patchset.
C18_ApplyOutcomes ==
    /\ [][RootParentStep =>
            /\ reconciled'.kind = "applied" =>
                 /\ Len(objects') = Len(objects) + 1
                 /\ objects'[Len(objects')].parent = tip[Root]
                 /\ tip' = [tip EXCEPT ![Root] = NewObject(objects)]
                 /\ config' = config
                 /\ parent' = Some(reconciled'.base)
                 /\ reconciled'.base \in ExternalBases
                 /\ pc' = "commit"
            /\ reconciled'.kind = "conflict" =>
                 /\ config' = [config EXCEPT ![Root].gerritpatchset =
                                               Some(reconciled'.external_ps)]
                 /\ UNCHANGED <<tip, objects>>
                 /\ pc' = "died"
                 /\ error' = "patch_conflict"]_vars
    /\ [](error = "patch_conflict" =>
            \A r \in _UpdateWithExternalChanges(FreshHandle, Root) :
               r.external_ps = reconciled.external_ps =>
                 r.kind = "none" /\ r.kinds = <<>>)

\* The external diff was applied cleanly on a base that is not the local
\* merge-base, and the branch was pushed on it.
C18_Witness ==
    /\ reconciled.kind = "applied"
    /\ pc = "done"
    /\ Len(pushes) = 1
    /\ Len(objects) = 2
    /\ objects[2].parent = reconciled.base
    /\ reconciled.base # MergeBase(config0[Root].lastuploadhash[1], 1)

\* The step of _UploadAllPrecheck after the walk, once authenticated.
ChooseStep == pc = "choose" /\ error' # "not_authenticated"

\* What the step does for a stack of more than one branch whose parent
\* branches have all been uploaded, and for a single branch.
ChoiceByFlags ==
    /\ Len(cls) > 1 /\ options.cherry_pick_stacked =>
         prompt' = "none" /\ cherry_pick' /\ pc' = "create"
    /\ Len(cls) > 1 /\ ~options.cherry_pick_stacked /\ options.force =>
         prompt' = "none" /\ ~cherry_pick' /\ pc' = "create"
    /\ Len(cls) > 1 /\ ~options.cherry_pick_stacked /\ ~options.force =>
         prompt' = "stack_or_cherry_pick" /\ pc' = "create"
    /\ Len(cls) = 1 => prompt' = "none" /\ ~cherry_pick' /\ pc' = "create"

\* C19 as claimed: with more than one branch the user is asked to choose
\* between the whole stack and a cherry-pick unless a flag decides:
\* --cherry-pick-stacked chooses cherry-pick mode, force alone the whole
\* stack, both without a question; with exactly one branch there is no
\* question and no cherry-pick.
C19_PromptUnlessFlags == [][ChooseStep => ChoiceByFlags]_vars

\* C19 (amended): the above holds when every parent branch of the stack has
\* been uploaded before.  When one has never been uploaded the choice is not
\* offered: --cherry-pick-stacked is fatal, and otherwise the whole stack is
\* uploaded, never a cherry-pick, after a confirmation unless force is set.
C19_PromptUnlessFlagsOrNeverUploaded ==
    [][ChooseStep =>
         IF Len(cls) > 1 /\ must_upload_upstream
         THEN IF options.cherry_pick_stacked
              THEN /\ pc' = "died"
                   /\ error' = "must_upload_upstream"
                   /\ ~cherry_pick'
              ELSE /\ ~cherry_pick'
                   /\ prompt' = IF options.force THEN "none"
                                ELSE "confirm_upstream"
                   /\ pc' = "create" \/ (~options.force /\ pc' = "died")
         ELSE ChoiceByFlags]_vars

\* --cherry-pick-stacked on a stack of uploaded branches: cherry-pick mode
\* was chosen without a question and the current branch alone was pushed.
C19_Witness ==
    /\ options.cherry_pick_stacked
    /\ Len(cls) > 1
    /\ ~must_upload_upstream
    /\ cherry_pick
    /\ prompt = "none"
    /\ Len(pushes) = 1

\* SetIssue() has been called without an issue on the handle of cls[i]: its
\* change was found MERGED, the user chose to start a new change, and no
\* record of this invocation's upload has been written yet.
IssueUnset(i) ==
    /\ handles[i].status = Some("MERGED")
    /\ error # "merged"
    /\ posted = <<>>

\* C20: once SetIssue() has unset the issue of a branch, the five keys of
\* its record are absent, and GetIssue() and GetPatchset() on the same
\* handle return None.
C20_UnsetClearsRecord ==
    \A i \in 1..Len(handles) :
       IssueUnset(i) =>
         /\ \A key \in DOMAIN NoRecord : config[cls[i]][key] = None
         /\ GetIssue(handles[i], cls[i]).issue = None
         /\ GetPatchset(handles[i], cls[i]).patchset = None

\* The issue of a single uploaded branch was unset after the reconciler had
\* read the branch's recorded patchset into the handle.
C20_Witness ==
    /\ Len(cls) = 1
    /\ Len(handles) = 1
    /\ IssueUnset(1)
    /\ reconciled.local_ps = 1
    /\ config0[cls[1]] # NoRecord
    /\ handles[1].lookedup_patchset

\* The calls before call k that returned data for the same issue.
EarlierReturned(k) ==
    { j \in 1..(k - 1) : /\ detail_log[j].outcome = "data"
                         /\ detail_log[j].issue = detail_log[k].issue }

\* The option names of a call as the caller passed them, case aside.
Requested(k) == { Upper(o) : o \in detail_log[k].requested }

\* C21 as claimed: a call is answered from the cache exactly when an
\* earlier call that returned for the same issue was made with a set of
\* options that includes the set now passed, and data is never returned
\* for a request broader than the request it was fetched for.
C21_CacheHitIffRequestedSuperset ==
    \A k \in 1..Len(detail_log) :
       /\ detail_log[k].source = "cache" <=>
            \E j \in EarlierReturned(k) : Requested(k) \subseteq Requested(j)
       /\ detail_log[k].outcome = "data" =>
            \A j \in 1..k :
               detail_log[j].data = detail_log[k].data =>
                 Requested(k) \subseteq Requested(j)

\* C21 (amended): the sets compared are the normalised ones (upper-cased,
\* with CURRENT_COMMIT added when the options as passed hold
\* CURRENT_REVISION or ALL_REVISIONS): a call is answered from the cache
\* exactly when an earlier call that returned for the same issue had a
\* normalised set that includes the normalised set of this call; any other
\* call asks the server, and the data returned was fetched for a set that
\* includes the normalised set of the call.
C21_CacheHitIffNormalisedSuperset ==
    \A k \in 1..Len(detail_log) :
       /\ detail_log[k].source = "cache" <=>
            \E j \in EarlierReturned(k) :
               detail_log[k].options_set \subseteq detail_log[j].options_set
       /\ detail_log[k].source = "server" => detail_log[k].http_status # 0
       /\ detail_log[k].outcome = "data" =>
            detail_log[k].options_set \subseteq detail_log[k].data.fields

\* A request for CURRENT_COMMIT alone answered with the data an earlier
\* request for CURRENT_REVISION fetched.
C21_Witness ==
    /\ Len(detail_log) = 2
    /\ detail_log[1].requested = {"CURRENT_REVISION"}
    /\ detail_log[2].requested = {"CURRENT_COMMIT"}
    /\ detail_log[2].source = "cache"
    /\ detail_log[2].data = detail_log[1].data

\* The calls that asked the server and got data back.
Fetched == { k \in 1..Len(detail_log) :
               detail_log[k].source = "server" /\ detail_log[k].outcome = "data" }

\* The number of entries in the detail cache of the handle.
RECURSIVE CacheSize(_)
CacheSize(issues) ==
    IF issues = {} THEN 0
    ELSE LET i == CHOOSE x \in issues : TRUE
         IN  Len(detail_cache[i]) + CacheSize(issues \ {i})

\* C22: a 404 of the server is raised as GerritChangeNotExists, any other
\* error of the server as the GerritError it was, with its status; a call
\* that failed leaves nothing in the cache, so a call that follows only
\* failed calls for its issue asks the server again.
C22_FailedLookup ==
    /\ \A k \in 1..Len(detail_log) :
          /\ detail_log[k].http_status = 404 =>
               detail_log[k].outcome = "GerritChangeNotExists"
          /\ detail_log[k].http_status = 500 =>
               detail_log[k].outcome = "GerritError"
          /\ detail_log[k].outcome # "data" => detail_log[k].source = "server"
          /\ (\A j \in 1..(k - 1) :
                detail_log[j].issue = detail_log[k].issue =>
                  detail_log[j].outcome # "data")
             => detail_log[k].source = "server"
    /\ CacheSize(DetailIssues) = Cardinality(Fetched)

\* A lookup that got a 404 and was made again with the same options.
C22_Witness ==
    /\ Len(detail_log) = 2
    /\ detail_log[1].outcome = "GerritChangeNotExists"
    /\ detail_log[2].issue = detail_log[1].issue
    /\ detail_log[2].requested = detail_log[1].requested
    /\ detail_log[2].source = "server"
    /\ detail_log[2].outcome = "data"
    /\ CacheSize(DetailIssues) = 1

\* The invocation uploads the current branch alone.
SingleUpload == attempts # <<>>

\* C23 as claimed: an upload invocation of either kind runs git push at
\* most once, and a failed push ends it.
C23_PushAtMostOnce ==
    /\ Len(pushes) <= 1
    /\ (\E k \in 1..Len(attempts) : attempts[k].outcome = "GitPushError")
         => pc = "died"

\* C23 (amended): UploadAllSquashed runs git push at most once and a failed
\* push ends it.  CMDUploadChange runs git push at most twice: the upload
\* is made a second time, once, after a first push failed, when the remote
\* branch is master or main and the head of the project is another branch
\* than the one pushed to; the second push goes to the head of the project,
\* and if it fails too the invocation ends.
C23_PushRetriedOnceForDefaultBranch ==
    /\ ~SingleUpload =>
         /\ Len(pushes) <= 1
         /\ error = "GitPushError" => pc = "raised" /\ Len(pushes) = 1
    /\ SingleUpload =>
         /\ Len(attempts) <= 2
         /\ Len(pushes) <= Len(attempts)
         /\ Len(attempts) = 2 =>
              /\ attempts[1].outcome = "GitPushError"
              /\ Val(call).remote_branch \in {"refs/remotes/origin/master",
                                              "refs/remotes/origin/main"}
              /\ attempts[2].branch = Val(call).project_head
              /\ attempts[2].branch # attempts[1].branch
              /\ attempts[2].force
         /\ attempts[Len(attempts)].outcome = "GitPushError" =>
              \/ pc = "died" /\ error = "GitPushError"
              \/ pc = "retry" /\ Len(attempts) = 1

\* A push to refs/heads/master failed, the upload was made again on the
\* head of the project, and the second push failed too.
C23_Witness ==
    /\ Len(pushes) = 2
    /\ Len(attempts) = 2
    /\ attempts[1].branch = "refs/heads/master"
    /\ attempts[2].branch = "refs/heads/main"
    /\ attempts[2].outcome = "GitPushError"
    /\ pc = "died"

\* The invocation has ended in a fatal error (an abort the user asked for
\* at a prompt is not one).
FatalExit == pc \in {"died", "raised"} /\ error # "aborted"

\* C24 as claimed: at every fatal exit of an upload the description backup
\* file holds the change description that was in progress for the branch
\* being uploaded.
C24_BackupBeforeFatalExit ==
    FatalExit /\ IsSome(description) => backup = description

\* ------------------------------------------------------------------------
\* ChangeDescription and the footers of a description.  A description is the
\* list of its lines; a line is the footer `Key: value`, or text (no key),
\* or the empty line.  Joining the lines with "\n" and splitting the text
\* again gives the same lines, up to empty lines at the end.
Line(key, value) == [key |-> key, value |-> value]
Blank == Line("", "")
ChangeIds == {"I1", "I2"}
Lines == {Blank, Line("", "Fix the bug"), Line("Bug", "7")}
            \cup {Line("Change-Id", i) : i \in ChangeIds}

\* The longest description drawn, and the calls made on it.
MaxLines == 4
MaxEnsures == 2

Lowest(S) == CHOOSE x \in S : \A y \in S : x <= y
Highest(S) == CHOOSE x \in S : \A y \in S : y <= x

\* ChangeDescription.set_description: the lines without the empty lines at
\* either end.
set_description(desc) ==
    LET full == {i \in 1..Len(desc) : desc[i] # Blank}
    IN  IF full = {} THEN <<>>
        ELSE SubSeq(desc, Lowest(full), Highest(full))

\* git_footers.split_footers: the footers are the trailing block of the
\* description, the lines of its last paragraph from the first
\* `Key: value` line on; an empty line separates them from the body, so a
\* description of one paragraph is all body and has none.  Text of the
\* last paragraph before the footers is split from them by an empty line.
split_footers(message) ==
    LET message_lines == IF set_description(message) = <<>> THEN <<>>
                         ELSE SubSeq(message, 1,
                                Highest({i \in 1..Len(message) :
                                           message[i] # Blank}))
        n == Len(message_lines)
        blanks == {i \in 1..n : message_lines[i] = Blank}
        start == IF blanks = {} THEN 0 ELSE Highest(blanks)
        well_formed == {i \in (start + 1)..n : message_lines[i].key # ""}
        first == IF blanks = {} \/ well_formed = {} THEN n + 1
                 ELSE Lowest(well_formed)
        footer_lines == SubSeq(message_lines, first, n)
    IN  IF footer_lines = <<>>
        THEN [top_lines |-> message_lines, footer_lines |-> <<>>]
        ELSE [top_lines |-> SubSeq(message_lines, 1, first - 1)
                              \o (IF first > start + 1 THEN <<Blank>>
                                  ELSE <<>>),
              footer_lines |-> footer_lines]

\* git_footers.get_footer_change_id: the values of the Change-Id footers,
\* the last footer first.
get_footer_change_id(message) ==
    LET ids == SelectSeq(split_footers(message).footer_lines,
                         LAMBDA l : l.key = "Change-Id")
    IN  [i \in 1..Len(ids) |-> ids[Len(ids) + 1 - i].value]

\* git_footers.remove_footer: the description without the footers of that
\* key.
remove_footer(message, key) ==
    LET s == split_footers(message)
    IN  IF s.footer_lines = <<>> THEN message
        ELSE s.top_lines
               \o SelectSeq(s.footer_lines, LAMBDA l : l.key # key)

\* git_footers.add_footer_change_id: the Change-Id footer goes after the
\* last Bug, Issue, Test or Feature footer, else to the end of the footers;
\* a description without footers gets an empty line and the footer.
add_footer_change_id(message, change_id) ==
    LET s == split_footers(message)
        f == s.footer_lines
        new_footer == Line("Change-Id", change_id)
        after == {i \in 1..Len(f) :
                    f[i].key \in {"Bug", "Issue", "Test", "Feature"}}
        insert_idx == IF after # {} THEN Highest(after) ELSE Len(f)
    IN  IF f = <<>>
        THEN (IF s.top_lines = <<>>
                 \/ s.top_lines[Len(s.top_lines)] # Blank
              THEN Append(s.top_lines, Blank) ELSE s.top_lines)
               \o <<new_footer>>
        ELSE s.top_lines \o SubSeq(f, 1, insert_idx) \o <<new_footer>>
               \o SubSeq(f, insert_idx + 1, Len(f))

\* ChangeDescription.ensure_change_id: the lines afterwards.
ensure_change_id(lines, change_id) ==
    LET footer_change_ids == get_footer_change_id(lines)
    IN  IF footer_change_ids # <<change_id>>
        THEN set_description(add_footer_change_id(
                 IF footer_change_ids # <<>>
                 THEN remove_footer(lines, "Change-Id") ELSE lines,
                 change_id))
        ELSE lines

\* One call of ensure_change_id on the description.
EnsureChangeId ==
    /\ pc = "idle"
    /\ Len(ensured) < MaxEnsures
    /\ \E change_id \in ChangeIds :
          /\ description_lines' = ensure_change_id(description_lines, change_id)
          /\ ensured' = Append(ensured, change_id)
    /\ UNCHANGED <<mainVars, detail_cache, detail_log, attempts, description,
                   backup>>

\* ChangeDescription.__init__ of any text of up to MaxLines lines.
InitDescription ==
    /\ Idle
    /\ SideInit
    /\ ensured = <<>>
    /\ \E n \in 0..MaxLines : \E desc \in [1..n -> Lines] :
          description_lines = set_description(desc)

NextDescription == EnsureChangeId

SpecDescription == InitDescription /\ [][NextDescription]_vars

\* C25: ensure_change_id is idempotent: after a call with an id, a second
\* call with that id changes nothing, the description has exactly one
\* Change-Id footer and it carries the id, and a description that had
\* exactly that footer before the call is left as it was.
C25_EnsureChangeIdIdempotent ==
    [][ensured' # ensured =>
         LET change_id == ensured'[Len(ensured')]
         IN  /\ ensure_change_id(description_lines', change_id)
                  = description_lines'
             /\ get_footer_change_id(description_lines') = <<change_id>>
             /\ get_footer_change_id(description_lines) = <<change_id>>
                  => description_lines' = description_lines]_vars

\* ------------------------------------------------------------------------
\* Changelist.SetPatchset and GetPatchset on the handles of one branch.  In
\* this part the gerritpatchset key holds the text git config stores.

\* str() of a patchset field: of a number, and of None.
Digits == <<"1", "2", "3", "4">>
PatchsetText(patchset) ==
    IF patchset = None THEN "None" ELSE Digits[Val(patchset)]

\* int() of a stored text; None: int() raises ValueError.
PatchsetNumber(text) ==
    IF \E n \in 1..Len(Digits) : Digits[n] = text
    THEN Some(CHOOSE n \in 1..Len(Digits) : Digits[n] = text)
    ELSE None

\* Changelist._GitSetBranchConfigValue: an empty value unsets the key, any
\* other value is stored.
_GitSetBranchConfigValue(rec, key, value) ==
    [rec EXCEPT ![key] = IF value \in {None, Some("")} THEN None ELSE value]

\* Changelist.GetPatchset on handle h: the handle afterwards and what the
\* call returns, or that it raises ValueError.
GetPatchsetResult(h, b) ==
    IF ~IsSome(h.patchset) /\ ~h.lookedup_patchset
    THEN LET stored == config[b].gerritpatchset
         IN  IF ~IsSome(stored)
             THEN [h |-> [h EXCEPT !.lookedup_patchset = TRUE],
                   result |-> None, raised |-> FALSE]
             ELSE IF IsSome(PatchsetNumber(Val(stored)))
             THEN [h |-> [h EXCEPT !.patchset = PatchsetNumber(Val(stored)),
                                   !.lookedup_patchset = TRUE],
                   result |-> PatchsetNumber(Val(stored)), raised |-> FALSE]
             ELSE [h |-> [h EXCEPT !.patchset = stored],
                   result |-> None, raised |-> TRUE]
    ELSE [h |-> h, result |-> h.patchset, raised |-> FALSE]

\* Changelist(branchref=...): one more handle for the branch.
NewChangelist ==
    /\ pc = "idle"
    /\ Len(handles) < 2
    /\ handles' = Append(handles, FreshHandle)
    /\ call' = Some([op |-> "Changelist", handle |-> Len(handles) + 1,
                     patchset |-> 0, result |-> None])
    /\ UNCHANGED <<repoVars, walkVars, pc, error, idx, parent, orig_parent,
                   uploads_by_cl, pushes, change_numbers, posted, config0,
                   head, reconciled, options, prompt, sideVars>>

\* Changelist.SetPatchset(patchset) on handle i.
SetPatchset ==
    /\ pc = "idle"
    /\ \E i \in 1..Len(handles), patchset \in 0..MaxRemotePatchset :
          LET b == CurrentBranch
              field == IF patchset = 0 THEN None ELSE Some(patchset)
          IN  /\ handles' = [handles EXCEPT ![i].patchset = field]
              /\ config' = [config EXCEPT ![b] =
                    _GitSetBranchConfigValue(@, "gerritpatchset",
                                             Some(PatchsetText(field)))]
              /\ call' = Some([op |-> "SetPatchset", handle |-> i,
                               patchset |-> patchset, result |-> None])
    /\ UNCHANGED <<tip, upstream, objects, walkVars, pc, error, idx, parent,
                   orig_parent, uploads_by_cl, pushes, change_numbers, posted,
                   config0, head, reconciled, options, prompt, sideVars>>

\* Changelist.GetPatchset() on handle i; a ValueError ends the program.
GetPatchsetCall ==
    /\ pc = "idle"
    /\ \E i \in 1..Len(handles) :
          LET r == GetPatchsetResult(handles[i], CurrentBranch)
          IN  /\ handles' = [handles EXCEPT ![i] = r.h]
              /\ call' = Some([op |-> "GetPatchset", handle |-> i,
                               patchset |-> 0, result |-> r.result])
              /\ IF r.raised
                 THEN pc' = "raised" /\ error' = "ValueError"
                 ELSE UNCHANGED <<pc, error>>
    /\ UNCHANGED <<repoVars, walkVars, idx, parent, orig_parent,
                   uploads_by_cl, pushes, change_numbers, posted, config0,
                   head, reconciled, options, prompt, sideVars>>

InitHandle == Idle /\ SideInit /\ NoText

NextHandle == NewChangelist \/ SetPatchset \/ GetPatchsetCall

SpecHandle == InitHandle /\ [][NextHandle]_vars

\* C26: after SetPatchset(0) the gerritpatchset key is absent from the
\* branch configuration, and GetPatchset() returns None on the handle the
\* call was made on and on a fresh handle for the branch.
C26_SetPatchsetZeroClears ==
    (IsSome(call) /\ Val(call).op = "SetPatchset" /\ Val(call).patchset = 0)
    => /\ ~IsSome(config[CurrentBranch].gerritpatchset)
       /\ \A h \in {handles[Val(call).handle], FreshHandle} :
             LET r == GetPatchsetResult(h, CurrentBranch)
             IN  ~r.raised /\ r.result = None

\* ------------------------------------------------------------------------
\* The walk of _UploadAllPrecheck on its own, over every upstream tracking
\* of the branches above the current one, cyclic ones included.
InitWalk ==
    /\ tip \in [Branches -> {2, 3, 4}]
    /\ tip[CurrentBranch] = 4
    /\ upstream \in [Branches -> [origin : {".", "origin"},
                                  ref : Branches \cup {"main"}]]
    /\ \A b \in Branches :
          /\ upstream[b].origin = "origin" <=> upstream[b].ref = "main"
          /\ upstream[b].ref # b
    /\ \E up \in [Branches -> {0} \cup UploadedAt] :
          /\ up[CurrentBranch] = 0
          /\ config = [b \in Branches |->
                      IF up[b] = 0 THEN NoRecord ELSE UploadedRecord(b, up[b])]
    /\ Started

NextWalk == PrecheckPass

\* The loop runs on as long as it has not ended.
SpecWalk == InitWalk /\ [][NextWalk]_vars /\ WF_vars(NextWalk)

\* C27: the walk of _UploadAllPrecheck terminates for every configuration
\* of branches and upstream tracking: it returns a stack or ends in a fatal
\* error.
C27_WalkTerminates == <>(pc # "walk")

\* ------------------------------------------------------------------------
\* C28: in cherry-pick mode the stack has two branches or more and the
\* second has a squash hash, so the cherry-pick has a parent; only the
\* current branch gets commits to push, a refspec and a record update.  With
\* a non-empty ancestor without squash hash in the stack cherry-pick mode is
\* not selected, and with --cherry-pick-stacked the upload dies.
C28_CherryPickMode ==
    /\ cherry_pick =>
          /\ Len(cls) >= 2
          /\ IsSome(config[cls[2]].gerritsquashhash)
          /\ error # "no_parent"
          /\ \A k \in 1..Len(uploads_by_cl) : uploads_by_cl[k].cl = 1
          /\ \A k \in 1..Len(pushes) : Len(pushes[k]) = 1
          /\ \A k \in 1..Len(posted) : posted[k].cl = 1
          /\ \A b \in (DOMAIN config) \ {cls[1]} : config[b] = config0[b]
    /\ (\E k \in 2..Len(cls) : ~IsSome(config0[cls[k]].gerritsquashhash)) =>
          /\ ~cherry_pick
          /\ (options.cherry_pick_stacked /\ pc \notin {"walk", "choose"})
                => pc = "died"

\* A cherry-picked upload of the current branch that went through.
C28_Witness ==
    /\ cherry_pick
    /\ options.cherry_pick_stacked
    /\ pc = "done"
    /\ Len(posted) = 1
    /\ config[cls[1]] # config0[cls[1]]

\* ------------------------------------------------------------------------
\* The uploads whose branch carries the squash hash of the pushed commit.
WrittenBack ==
    {k \in 1..Len(uploads_by_cl) :
        config[cls[uploads_by_cl[k].cl]].gerritsquashhash
            = Some(uploads_by_cl[k].commit_to_push)}

\* C29: when UploadAllSquashed has ended after a successful push, by return
\* or by error, the records of all branches of the stack are written back
\* or those of none, whatever the push printed.
C29_WriteBackAllOrNothing ==
    (/\ pc \in {"done", "raised", "died"}
     /\ pushes # <<>>
     /\ error # "GitPushError")
    => WrittenBack \in {{}, 1..Len(uploads_by_cl)}

\* ------------------------------------------------------------------------
\* The order in which PostUploadUpdates may set the keys of a record.
KeyOrder == <<"gerritissue", "gerritserver", "gerritpatchset",
              "gerritsquashhash", "lastuploadhash">>
KeyRank(key) == CHOOSE n \in 1..Len(KeyOrder) : KeyOrder[n] = key

====
